---- MODULE Spec2Model ----
(***************************************************************************)
(* dev-trace: command telemetry capture (cli.run_cmd, runner.run_command), *)
(* the SQLite local store with its sync queue (storage.LocalStore), the    *)
(* sync pass (sync.sync_pending_events) and the reference ingestor         *)
(* (server.CentralStore, server.ingest).                                   *)
(*                                                                         *)
(* Tables are sequences of rows in rowid order; a row is a function from   *)
(* column names to values.  Text, integer and real values are integers;    *)
(* Null is SQL NULL / Python None / JSON null, Bad is a value that int()   *)
(* and float() reject (such as the string "abc").                          *)
(***************************************************************************)
EXTENDS Integers, Sequences, FiniteSets, TLC

\* ------------------------------------------------------------------ bounds
MaxEvents == 2        \* ids that new_id hands out
MaxFaults == 1        \* delivery faults and sync-pass crashes in one behaviour
MaxRemoteRows == 3    \* rows of ingested_events under direct submissions
MaxPriorRows == 2     \* rows of a store that ensure_storage finds
MaxAttempts == 2      \* attempts of an entry under direct mark_sync_failed calls
MaxPasses == 3        \* failed passes over an entry while the remote is down
MaxLines == 2         \* lines of one stat report

\* ------------------------------------------------------------------ values
Null == -1
Bad == -2
Missing == -3         \* dict.get on an absent key (before the default applies)
NoneText == -4        \* str(None), the text 'None'
TIMEOUT_EXIT == 124   \* runner.py: exit_code of a timed-out command
ERROR_EXIT == 1       \* exit status of the CLI after an uncaught exception
ERROR_LIMIT == 500    \* storage.py: error[:500]
HTTP_OK == 200
HTTP_ERROR == 500

\* The instants now_ts() returns: two reads give equal or different times.
Instants == {0, 1}

Range(s) == {s[i] : i \in DOMAIN s}
Min(a, b) == IF a <= b THEN a ELSE b
Max(a, b) == IF a >= b THEN a ELSE b
BoolToInt(b) == IF b THEN 1 ELSE 0
IntToBool(i) == i # 0

EVENT_COLUMNS ==
    << "id", "agent_id", "executed_at", "command_hash", "duration_ms",
       "exit_code", "timed_out", "files_touched_count", "lines_added",
       "lines_deleted", "predicted_productivity", "top_contribution_feature",
       "top_contribution_value", "model_ref" >>

PENDING_SYNC_COLUMNS == EVENT_COLUMNS \o << "attempts" >>

\* ------------------------------------------------------------------ state
VARIABLES
    now,               \* utils.now_ts(): the wall clock
    next_id,           \* utils.new_id(): the next unused event id
    command_events,    \* table command_events (committed rows)
    sync_queue,        \* table sync_queue (committed rows)
    txn_events,        \* rows INSERTed into command_events by the open transaction
    txn_queue,         \* rows INSERTed into sync_queue by the open transaction
    run_pc,            \* position of the `devtrace run` process
    run_metrics,       \* <<metrics>> once run_command returned, else << >>
    run_pred,          \* <<prediction>> when scoring produced one, else << >>
    run_event_id,      \* event_id generated by insert_command_event, else Null
    cmd_status,        \* <<exit status>> of the wrapped command once it ran, else << >>
    insert_ret,        \* "not_called" | "none" | "id" | "raised"
    run_error,         \* the exception that ended the run, "none" without one
    exit_status,       \* <<exit status>> the CLI process reported, else << >>
    sync_pc,           \* per sync pass: "idle" | "request" | "response"
    pending,           \* per sync pass: the records pending_sync_events returned
    response,          \* per sync pass: what urlopen gave for the request
    sync_ret,          \* per sync pass: what sync_pending_events returned or raised
    faults,            \* delivery faults and sync-pass crashes so far
    ingested_events,   \* table ingested_events of the central store
    last_batch,        \* the events of the last batch posted by another client
    last_reply,        \* the ingestor's reply to that batch
    event_schema,      \* columns of table command_events, << >> without the table
    queue_schema,      \* whether table sync_queue exists
    setup_pc,          \* per ensure_storage run: its position
    existing,          \* per ensure_storage run: the columns PRAGMA table_info gave
    column_k,          \* per ensure_storage run: the next prediction column
    listed,            \* <<limit, records>> of the last list_command_events call
    collected,         \* <<footprint>> once the run consulted the collector, else << >>
    hashed,            \* the last two hash_command calls: argument vector and hash
    diffed,            \* <<the two query results, outcome>> of the last collector call
    repo,              \* the repository: its unstaged and its staged stat report
    last_run,          \* <<the repository before and after the command>> of the last run
    out_parent,        \* whether the parent directory of the export paths exists
    out_files,         \* per export format: << >> or <<the file at its output path>>
    exported           \* << >> or <<the last export_events call: format and outcome>>

store_vars == << command_events, sync_queue, txn_events, txn_queue >>
run_vars == << run_pc, run_metrics, run_pred, run_event_id, cmd_status,
               insert_ret, run_error, exit_status >>
sync_vars == << sync_pc, pending, response, sync_ret, faults >>
remote_vars == << ingested_events, last_batch, last_reply >>
setup_vars == << event_schema, queue_schema, setup_pc, existing, column_k >>
call_vars == << listed, collected, hashed, diffed >>
repo_vars == << repo, last_run >>
export_vars == << out_parent, out_files, exported >>
vars == << now, next_id, store_vars, run_vars, sync_vars, remote_vars,
           setup_vars, call_vars, repo_vars, export_vars >>

\* The formats export_events may be called with; "xml" is none it knows.
Formats == {"csv", "jsonl", "parquet", "xml"}

\* Nothing was exported, and the directory to export into is not there.
NoExports ==
    /\ out_parent = FALSE
    /\ out_files = [fmt \in Formats |-> << >>]
    /\ exported = << >>

\* The working tree and the index are as committed, and nothing has run.
CleanRepo == [working |-> << >>, staged |-> << >>]
NoRuns == repo = CleanRepo /\ last_run = << >>

\* No query has been made.
NoCalls ==
    listed = << >> /\ collected = << >> /\ hashed = << >> /\ diffed = << >>

\* ------------------------------------------------------- runner.run_command
\* What subprocess.run can do: return with an exit code, raise TimeoutExpired,
\* or raise OSError because the process could not be spawned.
ExecOutcomes ==
    { [kind |-> "exit", code |-> c, elapsed |-> 5] : c \in {0, 3} }
        \cup { [kind |-> "timeout", code |-> 0, elapsed |-> 9],
               [kind |-> "spawn_error", code |-> 0, elapsed |-> 0] }

\* Footprints handed to to_metrics by collect_git_diff_metrics.
Footprints == { <<0, 0, 0>>, <<1, 0, 0>>, <<1, 2, 1>> }

\* A variant that catches the OSError too and goes on to build metrics.
SpawnedMut(exec) == TRUE

\* Lines 21-37: only TimeoutExpired is caught; the OSError of a process that
\* could not be spawned leaves run_command.
Spawned(exec) == exec.kind # "spawn_error"

\* A variant that reports the exit code of the killed process on a timeout.
run_commandMut(hash, exec, fp) ==
    [ command_hash |-> hash,
      duration_ms |-> Max(0, exec.elapsed),
      exit_code |-> exec.code,
      timed_out |-> exec.kind = "timeout",
      files_touched_count |-> fp[1],
      lines_added |-> fp[2],
      lines_deleted |-> fp[3] ]

\* run_command: the CommandMetrics built from the execution outcome and the
\* change footprint (command_hash is the hash of the argument vector).
run_command(hash, exec, fp) ==
    [ command_hash |-> hash,
      duration_ms |-> Max(0, exec.elapsed),
      exit_code |-> IF exec.kind = "timeout" THEN TIMEOUT_EXIT ELSE exec.code,
      timed_out |-> exec.kind = "timeout",
      files_touched_count |-> fp[1],
      lines_added |-> fp[2],
      lines_deleted |-> fp[3] ]

\* score_single_event: the ModelPrediction of a scored event.
score_single_event(metrics) ==
    [ predicted_productivity |-> 88,
      top_contribution_feature |-> 6,
      top_contribution_value |-> 14,
      model_ref |-> 2 ]

\* ------------------------------------------- storage.insert_command_event
\* The skip rule: a command with no change footprint is not stored.
IsNoOpMut(metrics) ==
    /\ metrics.files_touched_count = 0
    /\ metrics.lines_added = 0
    /\ metrics.lines_deleted # 0

IsNoOp(metrics) ==
    /\ metrics.files_touched_count = 0
    /\ metrics.lines_added = 0
    /\ metrics.lines_deleted = 0

\* A variant that binds the footprint in another order.
EventRowMut(event_id, agent_id, ts, metrics, pred) ==
    [ id |-> event_id,
      agent_id |-> agent_id,
      executed_at |-> ts,
      command_hash |-> metrics.command_hash,
      duration_ms |-> metrics.duration_ms,
      exit_code |-> metrics.exit_code,
      timed_out |-> BoolToInt(metrics.timed_out),
      files_touched_count |-> metrics.files_touched_count,
      lines_added |-> metrics.lines_deleted,
      lines_deleted |-> metrics.lines_added,
      predicted_productivity |-> Null,
      top_contribution_feature |-> Null,
      top_contribution_value |-> Null,
      model_ref |-> Null ]

\* The tuple bound to the INSERT INTO command_events statement.
EventRow(event_id, agent_id, ts, metrics, pred) ==
    [ id |-> event_id,
      agent_id |-> agent_id,
      executed_at |-> ts,
      command_hash |-> metrics.command_hash,
      duration_ms |-> metrics.duration_ms,
      exit_code |-> metrics.exit_code,
      timed_out |-> BoolToInt(metrics.timed_out),
      files_touched_count |-> metrics.files_touched_count,
      lines_added |-> metrics.lines_added,
      lines_deleted |-> metrics.lines_deleted,
      predicted_productivity |->
          IF pred # << >> THEN pred[1].predicted_productivity ELSE Null,
      top_contribution_feature |->
          IF pred # << >> THEN pred[1].top_contribution_feature ELSE Null,
      top_contribution_value |->
          IF pred # << >> THEN pred[1].top_contribution_value ELSE Null,
      model_ref |-> IF pred # << >> THEN pred[1].model_ref ELSE Null ]

NullError == [kind |-> "NULL", len |-> 0]

\* A variant whose entry starts with one attempt counted.
QueueRowMut(event_id) ==
    [ event_id |-> event_id,
      status |-> "pending",
      attempts |-> 1,
      last_attempt_at |-> Null,
      last_error |-> NullError ]

\* INSERT INTO sync_queue (event_id, status) VALUES (?, 'pending'), with the
\* column defaults of the table.
QueueRow(event_id) ==
    [ event_id |-> event_id,
      status |-> "pending",
      attempts |-> 0,
      last_attempt_at |-> Null,
      last_error |-> NullError ]

\* conn.execute(INSERT) inside the implicit transaction of the connection:
\* the row is the transaction's until commit.
ExecInsertMut(committed, uncommitted, row) ==
    [committed |-> Append(committed, row), uncommitted |-> uncommitted]

ExecInsert(committed, uncommitted, row) ==
    [committed |-> committed, uncommitted |-> Append(uncommitted, row)]

TxnOpen == run_pc \in {"event_written", "queue_written"}

\* ------------------------------------------------------------- cli.run_cmd
\* `devtrace run` up to the call of insert_command_event: _store(path), then
\* run_command, then the optional scoring.  None of it touches the tables.
RunCmdStep(setup, hash, exec, fp, score) ==
    /\ UNCHANGED << sync_vars, remote_vars >>
    /\ run_pc = "idle"
    /\ run_event_id' = Null
    /\ insert_ret' = "not_called"
    /\ UNCHANGED << now, next_id, store_vars >>
    /\ IF setup = "error"
       THEN \* _store raises before run_command is called
            /\ run_pc' = "exited"
            /\ run_metrics' = << >>
            /\ run_pred' = << >>
            /\ cmd_status' = << >>
            /\ run_error' = "StorageError"
            /\ exit_status' = << ERROR_EXIT >>
       ELSE IF ~ Spawned(exec)
       THEN \* subprocess.run raises OSError: no metrics
            /\ run_pc' = "exited"
            /\ run_metrics' = << >>
            /\ run_pred' = << >>
            /\ cmd_status' = << >>
            /\ run_error' = "ExecutionError"
            /\ exit_status' = << ERROR_EXIT >>
       ELSE LET metrics == run_command(hash, exec, fp) IN
            /\ run_metrics' = << metrics >>
            /\ cmd_status' = << metrics.exit_code >>
            /\ IF score = "error"
               THEN \* score_single_event raises
                    /\ run_pc' = "exited"
                    /\ run_pred' = << >>
                    /\ run_error' = "ScoringError"
                    /\ exit_status' = << ERROR_EXIT >>
               ELSE /\ run_pc' = "insert"
                    /\ run_pred' = IF score = "scored"
                                   THEN << score_single_event(metrics) >>
                                   ELSE << >>
                    /\ run_error' = "none"
                    /\ exit_status' = << >>
    /\ UNCHANGED setup_vars
    \* to_metrics, and with it the collector, is called once subprocess.run
    \* has returned or timed out
    /\ collected' = IF setup = "error" \/ ~ Spawned(exec)
                    THEN << >> ELSE << fp >>
    /\ UNCHANGED << listed, hashed, diffed >>
    /\ UNCHANGED export_vars

\* The same where the repository is not looked at: the footprint is any.
RunCmd(setup, hash, exec, fp, score) ==
    /\ RunCmdStep(setup, hash, exec, fp, score)
    /\ UNCHANGED repo_vars

\* insert_command_event up to its first INSERT: the skip rule, new_id, and
\* the command_events row written inside the transaction.
InsertEvent(agent_id) ==
    /\ UNCHANGED << sync_vars, remote_vars >>
    /\ run_pc = "insert"
    /\ IF IsNoOp(run_metrics[1])
       THEN /\ insert_ret' = "none"
            /\ run_pc' = "exited"
            /\ exit_status' = << run_metrics[1].exit_code >>
            /\ UNCHANGED << next_id, store_vars, run_event_id >>
       ELSE /\ next_id <= MaxEvents
            /\ run_event_id' = next_id
            /\ next_id' = next_id + 1
            /\ LET r == ExecInsert(command_events, txn_events,
                                   EventRow(next_id, agent_id, now,
                                            run_metrics[1], run_pred)) IN
                 /\ command_events' = r.committed
                 /\ txn_events' = r.uncommitted
            /\ run_pc' = "event_written"
            /\ UNCHANGED << sync_queue, txn_queue, insert_ret, exit_status >>
    /\ UNCHANGED << now, run_metrics, run_pred, cmd_status, run_error >>
    /\ UNCHANGED setup_vars
    /\ UNCHANGED call_vars
    /\ UNCHANGED repo_vars
    /\ UNCHANGED export_vars

\* The second INSERT of insert_command_event.
InsertQueue ==
    /\ UNCHANGED << sync_vars, remote_vars >>
    /\ run_pc = "event_written"
    /\ LET r == ExecInsert(sync_queue, txn_queue, QueueRow(run_event_id)) IN
         /\ sync_queue' = r.committed
         /\ txn_queue' = r.uncommitted
    /\ run_pc' = "queue_written"
    /\ UNCHANGED << now, next_id, command_events, txn_events, run_metrics,
                    run_pred, run_event_id, cmd_status, insert_ret,
                    run_error, exit_status >>
    /\ UNCHANGED setup_vars
    /\ UNCHANGED call_vars
    /\ UNCHANGED repo_vars
    /\ UNCHANGED export_vars

\* conn.commit(), return event_id, and run_cmd's raise typer.Exit(exit_code).
InsertCommit ==
    /\ UNCHANGED << sync_vars, remote_vars >>
    /\ run_pc = "queue_written"
    /\ command_events' = command_events \o txn_events
    /\ sync_queue' = sync_queue \o txn_queue
    /\ txn_events' = << >>
    /\ txn_queue' = << >>
    /\ insert_ret' = "id"
    /\ run_pc' = "exited"
    /\ exit_status' = << run_metrics[1].exit_code >>
    /\ UNCHANGED << now, next_id, run_metrics, run_pred, run_event_id,
                    cmd_status, run_error >>
    /\ UNCHANGED setup_vars
    /\ UNCHANGED call_vars
    /\ UNCHANGED repo_vars
    /\ UNCHANGED export_vars

\* A statement of the transaction raises, or the process dies, before the
\* commit: the connection (or the journal, at the next open) rolls back.
InsertAbort ==
    /\ UNCHANGED << sync_vars, remote_vars >>
    /\ run_pc \in {"event_written", "queue_written"}
    /\ txn_events' = << >>
    /\ txn_queue' = << >>
    /\ insert_ret' = "raised"
    /\ run_error' = "StorageError"
    /\ run_pc' = "exited"
    /\ exit_status' = << ERROR_EXIT >>
    /\ UNCHANGED << now, next_id, command_events, sync_queue, run_metrics,
                    run_pred, run_event_id, cmd_status >>
    /\ UNCHANGED setup_vars
    /\ UNCHANGED call_vars
    /\ UNCHANGED repo_vars
    /\ UNCHANGED export_vars

\* insert_command_event as a whole, called on the store by a process of its
\* own: the skip rule, or both rows committed together.
InsertCommand(agent_id, metrics, pred) ==
    /\ ~ TxnOpen
    /\ IF IsNoOp(metrics)
       THEN UNCHANGED << next_id, command_events, sync_queue >>
       ELSE /\ next_id <= MaxEvents
            /\ next_id' = next_id + 1
            /\ command_events' =
                 Append(command_events,
                        EventRow(next_id, agent_id, now, metrics, pred))
            /\ sync_queue' = Append(sync_queue, QueueRow(next_id))
    /\ UNCHANGED << now, txn_events, txn_queue, run_vars, sync_vars,
                    remote_vars >>
    /\ UNCHANGED setup_vars
    /\ UNCHANGED call_vars
    /\ UNCHANGED repo_vars
    /\ UNCHANGED export_vars

\* The process is gone; the next `devtrace run` starts with nothing in memory.
RunExit ==
    /\ UNCHANGED << sync_vars, remote_vars >>
    /\ run_pc = "exited"
    /\ run_pc' = "idle"
    /\ run_metrics' = << >>
    /\ run_pred' = << >>
    /\ run_event_id' = Null
    /\ cmd_status' = << >>
    /\ insert_ret' = "not_called"
    /\ run_error' = "none"
    /\ exit_status' = << >>
    /\ UNCHANGED << now, next_id, store_vars >>
    /\ UNCHANGED setup_vars
    /\ collected' = << >>
    /\ UNCHANGED << listed, hashed, diffed >>
    /\ UNCHANGED repo_vars
    /\ UNCHANGED export_vars

\* time.time() advances.
Tick ==
    /\ UNCHANGED << sync_vars, remote_vars >>
    /\ now + 1 \in Instants
    /\ now' = now + 1
    /\ UNCHANGED << next_id, store_vars, run_vars >>
    /\ UNCHANGED setup_vars
    /\ UNCHANGED call_vars
    /\ UNCHANGED repo_vars
    /\ UNCHANGED export_vars

\* ------------------------------------------- storage.list_command_events
\* _records_from_rows with the event columns: timed_out made a bool.
EventRecord(row) ==
    [ c \in Range(EVENT_COLUMNS) |->
        IF c = "timed_out" THEN IntToBool(row.timed_out) ELSE row[c] ]

\* A variant without ORDER BY: the rows come in the order they were stored.
EventOrdersMut(events) == { [k \in DOMAIN events |-> k] }

\* ORDER BY executed_at ASC: every order of the positions of the rows that
\* ascends in executed_at (SQLite leaves the order of equal keys open).
EventOrders(events) ==
    LET n == Len(events)
    IN  { o \in [1..n -> 1..n] :
            /\ \A a, b \in 1..n : a # b => o[a] # o[b]
            /\ \A a, b \in 1..n :
                 a < b => events[o[a]].executed_at
                            <= events[o[b]].executed_at }

\* The results list_command_events(limit) may return; limit is << >> for
\* None and <<n>> for a number.  LIMIT ? is added only to a number, and
\* SQLite takes a negative LIMIT as none.
list_command_events(events, limit) ==
    { LET n == IF limit = << >> \/ limit[1] < 0 THEN Len(o)
               ELSE Min(limit[1], Len(o))
      IN  [ k \in 1..n |-> EventRecord(events[o[k]]) ] :
      o \in EventOrders(events) }

\* ------------------------------------------- storage.pending_sync_events
\* _records_from_rows: zip the columns with the row, timed_out made a bool.
PendingRecord(row, entry) ==
    [ c \in Range(PENDING_SYNC_COLUMNS) |->
        IF c = "attempts" THEN entry.attempts
        ELSE IF c = "timed_out" THEN IntToBool(row.timed_out)
        ELSE row[c] ]

\* FROM command_events ce JOIN sync_queue sq ON sq.event_id = ce.id
\* WHERE sq.status = 'pending': the pairs of row positions that join.
JoinPending(events, queue) ==
    { ij \in (DOMAIN events) \X (DOMAIN queue) :
        /\ queue[ij[2]].event_id = events[ij[1]].id
        /\ queue[ij[2]].status = "pending" }

\* A variant with ORDER BY ce.executed_at DESC.
OrderingsMut(events, queue) ==
    LET J == JoinPending(events, queue)
        n == Cardinality(J)
    IN  { o \in [1..n -> J] :
            /\ \A a, b \in 1..n : a # b => o[a] # o[b]
            /\ \A a, b \in 1..n :
                 a < b => events[o[a][1]].executed_at
                            >= events[o[b][1]].executed_at }

\* ORDER BY ce.executed_at ASC: every order of the joined rows that ascends
\* in executed_at (SQLite leaves the order of equal keys open).
Orderings(events, queue) ==
    LET J == JoinPending(events, queue)
        n == Cardinality(J)
    IN  { o \in [1..n -> J] :
            /\ \A a, b \in 1..n : a # b => o[a] # o[b]
            /\ \A a, b \in 1..n :
                 a < b => events[o[a][1]].executed_at
                            <= events[o[b][1]].executed_at }

\* A variant that applies LIMIT before WHERE: the first batch_size rows of
\* the whole join, of which the pending ones are returned.
pending_sync_eventsMut(events, queue, batch_size) ==
    LET all == [j \in DOMAIN queue |-> [queue[j] EXCEPT !.status = "pending"]]
    IN  { LET cut == SelectSeq([ k \in 1..Min(batch_size, Len(o)) |-> o[k] ],
                               LAMBDA ij : queue[ij[2]].status = "pending")
          IN  [ k \in 1..Len(cut) |->
                  PendingRecord(events[cut[k][1]], queue[cut[k][2]]) ] :
          o \in Orderings(events, all) }

\* A variant with a cutoff: entries that failed once are no longer returned.
pending_sync_eventsCutoffMut(events, queue, batch_size) ==
    LET live == [ j \in DOMAIN queue |->
                    IF queue[j].attempts >= 1
                    THEN [queue[j] EXCEPT !.status = "dead"]
                    ELSE queue[j] ]
    IN  { [ k \in 1..Min(batch_size, Len(o)) |->
              PendingRecord(events[o[k][1]], queue[o[k][2]]) ] :
          o \in Orderings(events, live) }

\* LIMIT ?: the results pending_sync_events(batch_size) may return.
pending_sync_events(events, queue, batch_size) ==
    { [ k \in 1..Min(batch_size, Len(o)) |->
          PendingRecord(events[o[k][1]], queue[o[k][2]]) ] :
      o \in Orderings(events, queue) }

\* ------------------------------- storage.mark_synced / mark_sync_failed
\* A variant that also counts an attempt.
UpdateSyncedMut(queue, ts, event_id) ==
    [ j \in DOMAIN queue |->
        IF queue[j].event_id = event_id
        THEN [queue[j] EXCEPT !.status = "synced", !.last_attempt_at = ts,
                              !.attempts = @ + 1]
        ELSE queue[j] ]

\* A variant without the WHERE clause: every entry is marked.
UpdateSyncedAllMut(queue, ts, event_id) ==
    [ j \in DOMAIN queue |->
        [queue[j] EXCEPT !.status = "synced", !.last_attempt_at = ts] ]

\* A variant that also clears the last error.
UpdateSyncedClearMut(queue, ts, event_id) ==
    [ j \in DOMAIN queue |->
        IF queue[j].event_id = event_id
        THEN [queue[j] EXCEPT !.status = "synced", !.last_attempt_at = ts,
                              !.last_error = NullError]
        ELSE queue[j] ]

\* UPDATE sync_queue SET status = 'synced', last_attempt_at = ?
\* WHERE event_id = ?
UpdateSynced(queue, ts, event_id) ==
    [ j \in DOMAIN queue |->
        IF queue[j].event_id = event_id
        THEN [queue[j] EXCEPT !.status = "synced", !.last_attempt_at = ts]
        ELSE queue[j] ]

\* A variant that stores the error text whole.
TruncateMut(error) == error

\* error[:500]
Truncate(error) == [error EXCEPT !.len = Min(error.len, ERROR_LIMIT)]

\* UPDATE sync_queue SET attempts = attempts + 1, last_attempt_at = ?,
\* last_error = ? WHERE event_id = ?
UpdateFailedMut(queue, ts, error, event_id) ==
    [ j \in DOMAIN queue |->
        IF queue[j].event_id = event_id
        THEN [queue[j] EXCEPT !.status = "pending", !.attempts = @ + 1,
                              !.last_attempt_at = ts, !.last_error = error]
        ELSE queue[j] ]

UpdateFailed(queue, ts, error, event_id) ==
    [ j \in DOMAIN queue |->
        IF queue[j].event_id = event_id
        THEN [queue[j] EXCEPT !.attempts = @ + 1, !.last_attempt_at = ts,
                              !.last_error = error]
        ELSE queue[j] ]

\* A variant that removes the delivered entries from the queue.
mark_syncedMut(queue, event_ids, ts) ==
    SelectSeq(queue, LAMBDA entry : entry.event_id \notin Range(event_ids))

\* conn.executemany: one UPDATE per element of event_ids, in order.
RECURSIVE mark_synced(_, _, _)
mark_synced(queue, event_ids, ts) ==
    IF event_ids = << >> THEN queue
    ELSE mark_synced(UpdateSynced(queue, ts, Head(event_ids)),
                     Tail(event_ids), ts)

RECURSIVE mark_sync_failed(_, _, _, _)
mark_sync_failed(queue, event_ids, error, ts) ==
    IF event_ids = << >> THEN queue
    ELSE mark_sync_failed(
             UpdateFailed(queue, ts, Truncate(error), Head(event_ids)),
             Tail(event_ids), error, ts)

\* ------------------------------------------------- server.CentralStore
REQUIRED ==
    { "id", "executed_at", "command_hash", "duration_ms", "exit_code",
      "timed_out", "files_touched_count", "lines_added", "lines_deleted" }

\* all(key in event for key in required)
is_valid_event(event) == \A key \in REQUIRED : key \in DOMAIN event

\* int(v) and float(v) raise on None and on text that is no number.
Converts(v) == v \notin {Null, Bad}

\* str(v): every value has a text; None becomes 'None'.
Str(v) == IF v = Null THEN NoneText ELSE v

\* The conversions of the VALUES tuple that can raise.
ValuesConvert(event) ==
    \A key \in { "executed_at", "duration_ms", "exit_code",
                 "files_touched_count", "lines_added", "lines_deleted" } :
        Converts(event[key])

\* The VALUES tuple of the INSERT of insert_batch.
IngestRow(event) ==
    [ id |-> event["id"],
      agent_id |-> IF "agent_id" \in DOMAIN event THEN event["agent_id"]
                   ELSE Null,
      executed_at |-> event["executed_at"],
      command_hash |-> Str(event["command_hash"]),
      duration_ms |-> event["duration_ms"],
      exit_code |-> event["exit_code"],
      timed_out |-> BoolToInt(event["timed_out"]),
      files_touched_count |-> event["files_touched_count"],
      lines_added |-> event["lines_added"],
      lines_deleted |-> event["lines_deleted"] ]

\* A variant without the primary key: every row is inserted.
InsertOrIgnoreMut(rows, row) == Append(rows, row)

\* INSERT OR IGNORE INTO ingested_events, id TEXT PRIMARY KEY: a row whose id
\* is already in the table is ignored; NULL ids never conflict in SQLite.
InsertOrIgnore(rows, row) ==
    IF row.id # Null /\ \E i \in DOMAIN rows : rows[i].id = row.id
    THEN rows
    ELSE Append(rows, row)

\* A variant that counts the rows the INSERT added, not the events it went
\* through.
RECURSIVE insert_loopMut(_, _, _)
insert_loopMut(acc, events, k) ==
    IF k > Len(events) THEN acc
    ELSE IF ~ is_valid_event(events[k]) THEN insert_loopMut(acc, events, k + 1)
    ELSE IF ~ ValuesConvert(events[k]) THEN [acc EXCEPT !.error = TRUE]
    ELSE LET rows == InsertOrIgnore(acc.rows, IngestRow(events[k]))
         IN  insert_loopMut([ rows |-> rows,
                              accepted |-> acc.accepted
                                             + Len(rows) - Len(acc.rows),
                              error |-> FALSE ],
                            events, k + 1)

\* The loop of insert_batch from event k on; error is an exception raised by
\* a conversion, which leaves the loop.
RECURSIVE insert_loop(_, _, _)
insert_loop(acc, events, k) ==
    IF k > Len(events) THEN acc
    ELSE IF ~ is_valid_event(events[k]) THEN insert_loop(acc, events, k + 1)
    ELSE IF ~ ValuesConvert(events[k]) THEN [acc EXCEPT !.error = TRUE]
    ELSE insert_loop([ rows |-> InsertOrIgnore(acc.rows, IngestRow(events[k])),
                       accepted |-> acc.accepted + 1,
                       error |-> FALSE ],
                     events, k + 1)

\* insert_batch: the loop inside one transaction; an exception rolls the
\* transaction back (with conn) and propagates.
insert_batch(rows, events) ==
    LET r == insert_loop([rows |-> rows, accepted |-> 0, error |-> FALSE],
                         events, 1)
    IN  IF r.error THEN [rows |-> rows, accepted |-> 0, error |-> TRUE]
        ELSE r

\* ------------------------------------------------------- HTTP exchange
\* What urlopen gives the sync pass: an exception of the transport, or a
\* status code and a body.
Reply(transport, code, body, accepted, errlen) ==
    [ transport |-> transport, code |-> code, body |-> body,
      accepted |-> accepted, errlen |-> errlen ]

NoReply == Reply("none", 0, "none", Missing, 0)

\* server.ingest behind FastAPI: {"accepted": n}, or 500 when insert_batch
\* raised.
ingest(result) ==
    IF result.error THEN Reply("ok", HTTP_ERROR, "not_json", Missing, 0)
    ELSE Reply("ok", HTTP_OK, "object", result.accepted, 0)

\* Replies that do not come from the ingestor answering the batch itself:
\* URLError (refused, unreachable, connect timeout), a timeout while reading
\* the response, an error status, a body that is no JSON, is no JSON object,
\* is empty, or whose accepted value is absent, null, no number, or another
\* count than the batch size K.
FaultReplies(K, errlens) ==
    { Reply("url_error", 0, "none", Missing, n) : n \in errlens }
        \cup { Reply("read_timeout", 0, "none", Missing, 0),
               Reply("ok", HTTP_ERROR, "not_json", Missing, 0) }
        \cup { Reply("ok", HTTP_OK, b, Missing, 0) :
                 b \in {"not_json", "not_object", "empty"} }
        \cup { Reply("ok", HTTP_OK, "object", a, 0) :
                 a \in {Missing, Null, Bad} \cup ((0..(K + 1)) \ {K}) }

\* ------------------------------------------- sync.sync_pending_events
SyncError(kind, arg, len) == [kind |-> kind, arg |-> arg, len |-> len]

Verdict(outcome, error) == [outcome |-> outcome, error |-> error]

\* Lines 29-42: what the try block and its except clause make of a reply for
\* a batch of K ids.  "synced": mark_synced runs; "failed": the exception is
\* a URLError or a RuntimeError and mark_sync_failed runs with its text;
\* "raised": the exception is neither and leaves sync_pending_events.
JudgeMut(reply, K) ==
    IF reply.transport = "url_error"
    THEN Verdict("failed", SyncError("URLError", 0, reply.errlen))
    ELSE IF reply.transport = "read_timeout"
    THEN Verdict("raised", SyncError("TimeoutError", 0, 9))
    ELSE IF reply.code < 200 \/ reply.code >= 300
    THEN Verdict("failed", SyncError("HTTPError", reply.code, 36))
    ELSE IF reply.body = "not_json"
    THEN Verdict("raised", SyncError("JSONDecodeError", 0, 40))
    ELSE IF reply.body = "not_object"
    THEN Verdict("raised", SyncError("AttributeError", 0, 40))
    ELSE LET accepted == IF reply.body = "empty" \/ reply.accepted = Missing
                         THEN 0 ELSE reply.accepted
         IN  IF ~ Converts(accepted)
             THEN Verdict("raised", SyncError("ValueError", 0, 40))
             ELSE IF accepted < 1
             THEN Verdict("failed", SyncError("RuntimeError", accepted, 24))
             ELSE Verdict("synced", SyncError("none", 0, 0))

Judge(reply, K) ==
    IF reply.transport = "url_error"
    THEN Verdict("failed", SyncError("URLError", 0, reply.errlen))
    ELSE IF reply.transport = "read_timeout"
    THEN Verdict("raised", SyncError("TimeoutError", 0, 9))
    ELSE IF reply.code < 200 \/ reply.code >= 300
    THEN Verdict("failed", SyncError("HTTPError", reply.code, 36))
    ELSE IF reply.body = "not_json"
    THEN Verdict("raised", SyncError("JSONDecodeError", 0, 40))
    ELSE IF reply.body = "not_object"
    THEN Verdict("raised", SyncError("AttributeError", 0, 40))
    ELSE LET accepted == IF reply.body = "empty" \/ reply.accepted = Missing
                         THEN 0 ELSE reply.accepted
         IN  IF ~ Converts(accepted)
             THEN Verdict("raised", SyncError("ValueError", 0, 40))
             ELSE IF accepted # K
             THEN Verdict("failed", SyncError("RuntimeError", accepted, 24))
             ELSE Verdict("synced", SyncError("none", 0, 0))

Procs == {1, 2}

NoReturn == [kind |-> "none", synced |-> 0, failed |-> 0]
Returned(synced, failed) ==
    [kind |-> "returned", synced |-> synced, failed |-> failed]
Raised == [kind |-> "raised", synced |-> 0, failed |-> 0]

\* event_ids = [event["id"] for event in pending]
EventIds(records) == [k \in DOMAIN records |-> records[k]["id"]]

\* A variant without the early return: an empty batch is posted like any.
FetchMut(p, batch_size) ==
    /\ sync_pc[p] = "idle"
    /\ \E records \in pending_sync_events(command_events, sync_queue,
                                          batch_size) :
         /\ sync_pc' = [sync_pc EXCEPT ![p] = "request"]
         /\ pending' = [pending EXCEPT ![p] = records]
         /\ UNCHANGED sync_ret
    /\ UNCHANGED << now, next_id, store_vars, run_vars, response, faults,
                    remote_vars >>
    /\ UNCHANGED setup_vars
    /\ UNCHANGED call_vars
    /\ UNCHANGED repo_vars
    /\ UNCHANGED export_vars

\* Lines 13-28: ensure_storage, pending_sync_events, the early return on an
\* empty result, and the request built from the records.
Fetch(p, batch_size) ==
    /\ sync_pc[p] = "idle"
    /\ \E records \in pending_sync_events(command_events, sync_queue,
                                          batch_size) :
         IF records = << >>
         THEN /\ sync_pc' = [sync_pc EXCEPT ![p] = "returned"]
              /\ sync_ret' = [sync_ret EXCEPT ![p] = Returned(0, 0)]
              /\ UNCHANGED pending
         ELSE /\ sync_pc' = [sync_pc EXCEPT ![p] = "request"]
              /\ pending' = [pending EXCEPT ![p] = records]
              /\ UNCHANGED sync_ret
    /\ UNCHANGED << now, next_id, store_vars, run_vars, response, faults,
                    remote_vars >>
    /\ UNCHANGED setup_vars
    /\ UNCHANGED call_vars
    /\ UNCHANGED repo_vars
    /\ UNCHANGED export_vars

\* Line 30, the ingestor answering: the posted events go through
\* insert_batch and the reply is the ingestor's.
Deliver(p) ==
    /\ sync_pc[p] = "request"
    /\ LET result == insert_batch(ingested_events, pending[p]) IN
         /\ ingested_events' = result.rows
         /\ response' = [response EXCEPT ![p] = ingest(result)]
    /\ sync_pc' = [sync_pc EXCEPT ![p] = "response"]
    /\ UNCHANGED << now, next_id, store_vars, run_vars, pending, sync_ret,
                    faults, last_batch, last_reply >>
    /\ UNCHANGED setup_vars
    /\ UNCHANGED call_vars
    /\ UNCHANGED repo_vars
    /\ UNCHANGED export_vars

\* Line 30, anything else: the reply is a fault; the ingestor may or may not
\* have stored the batch before it (never when the connection failed).
DeliverFault(p, reply, reached) ==
    /\ sync_pc[p] = "request"
    /\ faults < MaxFaults
    /\ faults' = faults + 1
    /\ reply.transport = "url_error" => ~ reached
    /\ ingested_events' =
         IF reached THEN insert_batch(ingested_events, pending[p]).rows
         ELSE ingested_events
    /\ response' = [response EXCEPT ![p] = reply]
    /\ sync_pc' = [sync_pc EXCEPT ![p] = "response"]
    /\ UNCHANGED << now, next_id, store_vars, run_vars, pending, sync_ret,
                    last_batch, last_reply >>
    /\ UNCHANGED setup_vars
    /\ UNCHANGED call_vars
    /\ UNCHANGED repo_vars
    /\ UNCHANGED export_vars

\* Lines 31-42: the reply is judged and the batch is marked.  The UPDATEs
\* wait for the write lock of an open insert transaction.
Complete(p) ==
    /\ sync_pc[p] = "response"
    /\ LET event_ids == EventIds(pending[p])
           K == Len(event_ids)
           v == Judge(response[p], K)
       IN  CASE v.outcome = "synced" ->
                  /\ ~ TxnOpen
                  /\ sync_queue' = mark_synced(sync_queue, event_ids, now)
                  /\ sync_ret' = [sync_ret EXCEPT ![p] = Returned(K, 0)]
             [] v.outcome = "failed" ->
                  /\ ~ TxnOpen
                  /\ sync_queue' =
                       mark_sync_failed(sync_queue, event_ids, v.error, now)
                  /\ sync_ret' = [sync_ret EXCEPT ![p] = Returned(0, K)]
             [] v.outcome = "raised" ->
                  /\ sync_queue' = sync_queue
                  /\ sync_ret' = [sync_ret EXCEPT ![p] = Raised]
    /\ sync_pc' = [sync_pc EXCEPT ![p] = "returned"]
    /\ response' = [response EXCEPT ![p] = NoReply]
    /\ UNCHANGED << now, next_id, command_events, txn_events, txn_queue,
                    run_vars, pending, faults, remote_vars >>
    /\ UNCHANGED setup_vars
    /\ UNCHANGED call_vars
    /\ UNCHANGED repo_vars
    /\ UNCHANGED export_vars

\* The caller has the result; the next pass starts from nothing.
SyncExit(p) ==
    /\ sync_pc[p] = "returned"
    /\ sync_pc' = [sync_pc EXCEPT ![p] = "idle"]
    /\ pending' = [pending EXCEPT ![p] = << >>]
    /\ sync_ret' = [sync_ret EXCEPT ![p] = NoReturn]
    /\ UNCHANGED << now, next_id, store_vars, run_vars, response, faults,
                    remote_vars >>
    /\ UNCHANGED setup_vars
    /\ UNCHANGED call_vars
    /\ UNCHANGED repo_vars
    /\ UNCHANGED export_vars

\* The process of a sync pass dies between its steps.
SyncCrash(p) ==
    /\ sync_pc[p] \in {"request", "response"}
    /\ faults < MaxFaults
    /\ faults' = faults + 1
    /\ sync_pc' = [sync_pc EXCEPT ![p] = "idle"]
    /\ pending' = [pending EXCEPT ![p] = << >>]
    /\ response' = [response EXCEPT ![p] = NoReply]
    /\ sync_ret' = [sync_ret EXCEPT ![p] = NoReturn]
    /\ UNCHANGED << now, next_id, store_vars, run_vars, remote_vars >>
    /\ UNCHANGED setup_vars
    /\ UNCHANGED call_vars
    /\ UNCHANGED repo_vars
    /\ UNCHANGED export_vars

\* ------------------------------------ POST /v1/telemetry/batch, directly
\* A well-formed event as another client may post it.
WireEvent(id, duration_ms) ==
    [ id |-> id, agent_id |-> Null, executed_at |-> 0, command_hash |-> 7,
      duration_ms |-> duration_ms, exit_code |-> 0, timed_out |-> FALSE,
      files_touched_count |-> 1, lines_added |-> 2, lines_deleted |-> 1 ]

Without(event, key) == [k \in (DOMAIN event) \ {key} |-> event[k]]

\* Events a client may post: well-formed ones, one with a null id, ones that
\* lack a key, and ones with a value that is null or no number.
DirectEvents ==
    { WireEvent(id, d) : id \in {1, 2}, d \in {5, 6} }
        \cup { WireEvent(Null, 5) }
        \cup { Without(WireEvent(1, 5), key) : key \in REQUIRED \cup {"agent_id"} }
        \cup { [WireEvent(2, 5) EXCEPT !["duration_ms"] = Bad],
               [WireEvent(2, 5) EXCEPT !["executed_at"] = Null] }

\* Batches of up to two events: every single event, and every pair that has
\* one of a few events in it, in both orders.
PairedEvents ==
    { WireEvent(1, 5), WireEvent(1, 6), WireEvent(Null, 5),
      [WireEvent(2, 5) EXCEPT !["duration_ms"] = Bad] }

DirectBatches ==
    { << >> } \cup { << e >> : e \in DirectEvents }
        \cup { << e, f >> : e \in DirectEvents, f \in PairedEvents }
        \cup { << f, e >> : e \in DirectEvents, f \in PairedEvents }

\* server.ingest: insert_batch on the posted events, and the reply.
Ingest(events) ==
    /\ LET result == insert_batch(ingested_events, events) IN
         /\ Len(result.rows) <= MaxRemoteRows
         /\ ingested_events' = result.rows
         /\ last_reply' = ingest(result)
    /\ last_batch' = events
    /\ UNCHANGED << now, next_id, store_vars, run_vars, sync_vars >>
    /\ UNCHANGED setup_vars
    /\ UNCHANGED call_vars
    /\ UNCHANGED repo_vars
    /\ UNCHANGED export_vars

\* ------------------------------------------------ storage.ensure_storage
\* The columns _ensure_command_event_columns adds, in its order.
PREDICTION_COLUMNS ==
    << "predicted_productivity", "top_contribution_feature",
       "top_contribution_value", "model_ref" >>

\* The columns of command_events before the prediction columns came.
BASE_COLUMNS ==
    SelectSeq(EVENT_COLUMNS, LAMBDA c : c \notin Range(PREDICTION_COLUMNS))

\* CREATE TABLE IF NOT EXISTS: an existing table is left as it is.
CreateTableIfNotExists(schema, columns) ==
    IF schema = << >> THEN columns ELSE schema

\* PRAGMA table_info(command_events): the names of the table's columns.
TableInfoMut(schema) == {}

TableInfo(schema) == Range(schema)

\* ALTER TABLE command_events ADD COLUMN: the column is appended and reads
\* NULL in every row; a column the table already has is an OperationalError
\* (duplicate column name).
AlterAddColumnMut(schema, rows, column) ==
    IF column \in Range(schema)
    THEN [schema |-> schema, rows |-> rows, error |-> TRUE]
    ELSE [ schema |-> Append(schema, column),
           rows |-> << >>,
           error |-> FALSE ]

AlterAddColumn(schema, rows, column) ==
    IF column \in Range(schema)
    THEN [schema |-> schema, rows |-> rows, error |-> TRUE]
    ELSE [ schema |-> Append(schema, column),
           rows |-> [ i \in DOMAIN rows |->
                        [ c \in (DOMAIN rows[i]) \cup {column} |->
                            IF c = column THEN Null ELSE rows[i][c] ] ],
           error |-> FALSE ]

\* Lines 54-75: connect and CREATE TABLE IF NOT EXISTS command_events.  No
\* statement of ensure_storage opens a transaction; each takes effect alone.
CreateEvents(q) ==
    /\ setup_pc[q] = "idle"
    /\ event_schema' = CreateTableIfNotExists(event_schema, EVENT_COLUMNS)
    /\ setup_pc' = [setup_pc EXCEPT ![q] = "created"]
    /\ UNCHANGED << now, next_id, store_vars, run_vars, sync_vars,
                    remote_vars, queue_schema, existing, column_k >>
    /\ UNCHANGED call_vars
    /\ UNCHANGED repo_vars
    /\ UNCHANGED export_vars

\* Lines 224-227: existing = the column names of the table.
ProbeColumns(q) ==
    /\ setup_pc[q] = "created"
    /\ existing' = [existing EXCEPT ![q] = TableInfo(event_schema)]
    /\ column_k' = [column_k EXCEPT ![q] = 1]
    /\ setup_pc' = [setup_pc EXCEPT ![q] = "probed"]
    /\ UNCHANGED << now, next_id, store_vars, run_vars, sync_vars,
                    remote_vars, event_schema, queue_schema >>
    /\ UNCHANGED call_vars
    /\ UNCHANGED repo_vars
    /\ UNCHANGED export_vars

\* Lines 228-235: one turn of the loop over the prediction columns.  The
\* ALTER waits for the write lock of an open insert transaction.
AddColumn(q) ==
    /\ setup_pc[q] = "probed"
    /\ column_k[q] <= Len(PREDICTION_COLUMNS)
    /\ LET column == PREDICTION_COLUMNS[column_k[q]]
           r == AlterAddColumn(event_schema, command_events, column)
       IN  IF column \in existing[q]
           THEN /\ column_k' = [column_k EXCEPT ![q] = @ + 1]
                /\ UNCHANGED << event_schema, command_events, setup_pc >>
           ELSE /\ ~ TxnOpen
                /\ event_schema' = r.schema
                /\ command_events' = r.rows
                /\ IF r.error
                   THEN /\ setup_pc' = [setup_pc EXCEPT ![q] = "raised"]
                        /\ UNCHANGED column_k
                   ELSE /\ column_k' = [column_k EXCEPT ![q] = @ + 1]
                        /\ UNCHANGED setup_pc
    /\ UNCHANGED << now, next_id, sync_queue, txn_events, txn_queue, run_vars,
                    sync_vars, remote_vars, queue_schema, existing >>
    /\ UNCHANGED call_vars
    /\ UNCHANGED repo_vars
    /\ UNCHANGED export_vars

\* Lines 76-89: CREATE TABLE IF NOT EXISTS sync_queue, commit, and return.
CreateQueue(q) ==
    /\ setup_pc[q] = "probed"
    /\ column_k[q] > Len(PREDICTION_COLUMNS)
    /\ queue_schema' = TRUE
    /\ setup_pc' = [setup_pc EXCEPT ![q] = "done"]
    /\ UNCHANGED << now, next_id, store_vars, run_vars, sync_vars,
                    remote_vars, event_schema, existing, column_k >>
    /\ UNCHANGED call_vars
    /\ UNCHANGED repo_vars
    /\ UNCHANGED export_vars

\* The caller has the store, or the exception; the next run starts anew.
SetupExit(q) ==
    /\ setup_pc[q] \in {"done", "raised"}
    /\ setup_pc' = [setup_pc EXCEPT ![q] = "idle"]
    /\ existing' = [existing EXCEPT ![q] = {}]
    /\ column_k' = [column_k EXCEPT ![q] = 1]
    /\ UNCHANGED << now, next_id, store_vars, run_vars, sync_vars,
                    remote_vars, event_schema, queue_schema >>
    /\ UNCHANGED call_vars
    /\ UNCHANGED repo_vars
    /\ UNCHANGED export_vars

EnsureStorage(q) ==
    \/ CreateEvents(q)
    \/ ProbeColumns(q)
    \/ AddColumn(q)
    \/ CreateQueue(q)
    \/ SetupExit(q)

Init ==
    /\ now = 0
    /\ next_id = 1
    /\ command_events = << >>
    /\ sync_queue = << >>
    /\ txn_events = << >>
    /\ txn_queue = << >>
    /\ run_pc = "idle"
    /\ run_metrics = << >>
    /\ run_pred = << >>
    /\ run_event_id = Null
    /\ cmd_status = << >>
    /\ insert_ret = "not_called"
    /\ run_error = "none"
    /\ exit_status = << >>
    /\ sync_pc = [p \in Procs |-> "idle"]
    /\ pending = [p \in Procs |-> << >>]
    /\ response = [p \in Procs |-> NoReply]
    /\ sync_ret = [p \in Procs |-> NoReturn]
    /\ faults = 0
    /\ ingested_events = << >>
    /\ last_batch = << >>
    /\ last_reply = NoReply
    /\ event_schema = EVENT_COLUMNS
    /\ queue_schema = TRUE
    /\ setup_pc = [q \in Procs |-> "idle"]
    /\ existing = [q \in Procs |-> {}]
    /\ column_k = [q \in Procs |-> 1]
    /\ NoCalls
    /\ NoRuns
    /\ NoExports

\* ------------------------------------------- capture: `devtrace run` alone
\* What a run meets: whether the store can be set up, the command's hash,
\* what subprocess.run does, the footprint, and what scoring does.
RunInputs ==
    {"ok", "error"} \X {7} \X ExecOutcomes \X Footprints
        \X {"no_model", "scored", "error"}

NextRun ==
    \/ Tick
    \/ \E r \in RunInputs : RunCmd(r[1], r[2], r[3], r[4], r[5])
    \/ \E agent_id \in {4} : InsertEvent(agent_id)
    \/ InsertQueue
    \/ InsertCommit
    \/ InsertAbort
    \/ RunExit

SpecRun == Init /\ [][NextRun]_vars

\* ------------------------------- the ingestor alone, posted to directly
NextIngest == \E events \in DirectBatches : Ingest(events)

SpecIngest == Init /\ [][NextIngest]_vars

\* --------------- capture, sync passes and the ingestor running together
BatchSizes == {1, 2}

Capture ==
    \/ Tick
    \/ \E fp \in {<<0, 0, 0>>, <<1, 2, 1>>} :
          InsertCommand(4, run_command(7, [kind |-> "exit", code |-> 0,
                                           elapsed |-> 5], fp), << >>)

\* One fault of each verdict: a refused connection, a read timeout, and a
\* partial accept.
SomeFaultReplies(K) ==
    { Reply("url_error", 0, "none", Missing, 600),
      Reply("read_timeout", 0, "none", Missing, 0),
      Reply("ok", HTTP_OK, "object", K - 1, 0) }

Next ==
    \/ Capture
    \/ \E p \in Procs :
          \/ \E batch_size \in BatchSizes : Fetch(p, batch_size)
          \/ Deliver(p)
          \/ \E reply \in SomeFaultReplies(Len(pending[p])),
                 reached \in BOOLEAN : DeliverFault(p, reply, reached)
          \/ Complete(p)
          \/ SyncExit(p)
          \/ SyncCrash(p)

Spec == Init /\ [][Next]_vars

\* One sync pass at a time (no second pass runs beside it).
NextSeq ==
    \/ Capture
    \/ \E batch_size \in BatchSizes : Fetch(1, batch_size)
    \/ Deliver(1)
    \/ \E reply \in FaultReplies(Len(pending[1]), {600}),
           reached \in BOOLEAN : DeliverFault(1, reply, reached)
    \/ Complete(1)
    \/ SyncExit(1)
    \/ SyncCrash(1)

SpecSeq == Init /\ [][NextSeq]_vars

\* Sync passes keep being invoked and run on: some pass always takes its next
\* step.  Faults and crashes are not forced, and there are at most MaxFaults.
PassStep(p) ==
    \/ \E batch_size \in BatchSizes : Fetch(p, batch_size)
    \/ Deliver(p)
    \/ Complete(p)
    \/ SyncExit(p)

SpecLive == Spec /\ WF_vars(\E p \in Procs : PassStep(p))

\* ------------------------------------ ensure_storage on a store it finds
\* A command_events table of an earlier or the present shape: the base
\* columns and some of the prediction columns.
Shapes ==
    { BASE_COLUMNS \o SelectSeq(PREDICTION_COLUMNS, LAMBDA c : c \in present) :
        present \in SUBSET Range(PREDICTION_COLUMNS) }

\* Row i of a table of that shape, every column of it with a value.
PriorRow(i, schema) ==
    LET metrics == run_command(7, [kind |-> "exit", code |-> 0,
                                   elapsed |-> 5], <<1, 2, 1>>)
        row == EventRow(i, 4, 0, metrics, << score_single_event(metrics) >>)
    IN  [ c \in Range(schema) |-> row[c] ]

\* The queue entry of row i: the first is synced after one failure.
PriorEntry(i) ==
    IF i = 1
    THEN [ QueueRow(i) EXCEPT !.status = "synced", !.attempts = 1,
                              !.last_attempt_at = 0,
                              !.last_error = SyncError("URLError", 0, 0) ]
    ELSE QueueRow(i)

\* The store ensure_storage may find: none, or a command_events table of
\* some shape with its rows, with or without the sync_queue table.
InitSetup ==
    /\ now = 0
    /\ next_id = MaxPriorRows + 1
    /\ \/ /\ event_schema = << >>
          /\ queue_schema = FALSE
          /\ command_events = << >>
          /\ sync_queue = << >>
       \/ \E schema \in Shapes, n \in 0..MaxPriorRows :
            /\ event_schema = schema
            /\ command_events = [i \in 1..n |-> PriorRow(i, schema)]
            /\ \/ /\ queue_schema = TRUE
                  /\ sync_queue = [i \in 1..n |-> PriorEntry(i)]
               \/ /\ queue_schema = FALSE
                  /\ sync_queue = << >>
    /\ txn_events = << >>
    /\ txn_queue = << >>
    /\ run_pc = "idle"
    /\ run_metrics = << >>
    /\ run_pred = << >>
    /\ run_event_id = Null
    /\ cmd_status = << >>
    /\ insert_ret = "not_called"
    /\ run_error = "none"
    /\ exit_status = << >>
    /\ sync_pc = [p \in Procs |-> "idle"]
    /\ pending = [p \in Procs |-> << >>]
    /\ response = [p \in Procs |-> NoReply]
    /\ sync_ret = [p \in Procs |-> NoReturn]
    /\ faults = 0
    /\ ingested_events = << >>
    /\ last_batch = << >>
    /\ last_reply = NoReply
    /\ setup_pc = [q \in Procs |-> "idle"]
    /\ existing = [q \in Procs |-> {}]
    /\ column_k = [q \in Procs |-> 1]
    /\ NoCalls
    /\ NoRuns
    /\ NoExports

\* Two ensure_storage runs of independent processes.
NextSetup == \E q \in Procs : EnsureStorage(q)

SpecSetup == InitSetup /\ [][NextSetup]_vars

\* One ensure_storage run after the other.
NextSetupSeq == EnsureStorage(1)

SpecSetupSeq == InitSetup /\ [][NextSetupSeq]_vars

\* ------------- every operation that writes to the local store, in sequence
NextStore ==
    \/ NextSeq
    \/ EnsureStorage(1)

SpecStore == Init /\ [][NextStore]_vars

\* --------------------------------- the LocalStore operations, called directly
\* How often x is an element of the sequence.
Occurrences(seq, x) == Cardinality({k \in DOMAIN seq : seq[k] = x})

\* Lists of event ids a caller may pass: empty, with an id twice, with ids of
\* synced entries, and with an id the queue does not have.
IdLists ==
    { << >>, <<1>>, <<2>>, <<1, 2>>, <<1, 1>>, <<2, MaxEvents + 1>> }

\* Error texts a caller may pass: a short one and one of over 500 characters.
ApiErrors == { SyncError("RuntimeError", 1, 24), SyncError("URLError", 0, 600) }

\* LocalStore.mark_synced(event_ids), with its early return on no ids.
MarkSynced(event_ids) ==
    /\ ~ TxnOpen
    /\ sync_queue' = IF event_ids = << >> THEN sync_queue
                     ELSE mark_synced(sync_queue, event_ids, now)
    /\ UNCHANGED << now, next_id, command_events, txn_events, txn_queue,
                    run_vars, sync_vars, remote_vars, setup_vars >>
    /\ UNCHANGED call_vars
    /\ UNCHANGED repo_vars
    /\ UNCHANGED export_vars

\* LocalStore.mark_sync_failed(event_ids, error), with its early return.
MarkSyncFailed(event_ids, error) ==
    /\ ~ TxnOpen
    /\ \A j \in DOMAIN sync_queue :
         sync_queue[j].attempts + Occurrences(event_ids, sync_queue[j].event_id)
           <= MaxAttempts
    /\ sync_queue' = IF event_ids = << >> THEN sync_queue
                     ELSE mark_sync_failed(sync_queue, event_ids, error, now)
    /\ UNCHANGED << now, next_id, command_events, txn_events, txn_queue,
                    run_vars, sync_vars, remote_vars, setup_vars >>
    /\ UNCHANGED call_vars
    /\ UNCHANGED repo_vars
    /\ UNCHANGED export_vars

\* The limits a caller may pass: none, zero, and up to more than is stored.
Limits == { << >> } \cup { <<n>> : n \in 0..(MaxEvents + 1) }

\* LocalStore.list_command_events(limit): a read of the committed rows.
ListEvents(limit) ==
    /\ \E records \in list_command_events(command_events, limit) :
         listed' = << limit, records >>
    /\ UNCHANGED << now, next_id, store_vars, run_vars, sync_vars,
                    remote_vars, setup_vars, collected, hashed, diffed >>
    /\ UNCHANGED repo_vars
    /\ UNCHANGED export_vars

\* A row as insert_command_event writes it, with the clock reading ts.  The
\* reading is taken before the write lock and from the wall clock, so rows
\* need not be stored in the order of their readings.
StoredRow(i, ts) ==
    [PriorRow(i, EVENT_COLUMNS) EXCEPT !.executed_at = ts]

\* The entry of an event after some sync passes.
StoredEntry(i, status, attempts) ==
    [ QueueRow(i) EXCEPT
        !.status = status,
        !.attempts = attempts,
        !.last_attempt_at = IF status = "synced" \/ attempts > 0
                            THEN 0 ELSE Null,
        !.last_error = IF attempts > 0 THEN SyncError("URLError", 0, 30)
                       ELSE NullError ]

\* The store a caller may find: up to MaxPriorRows events with any clock
\* readings, each with its entry in any status, with or without a failure.
InitApi ==
    /\ now = 0
    /\ \E n \in 0..MaxPriorRows :
         /\ next_id = n + 1
         /\ \E ts \in [1..n -> Instants],
               st \in [1..n -> {"pending", "synced"}],
               at \in [1..n -> {0, 1}] :
              /\ command_events = [i \in 1..n |-> StoredRow(i, ts[i])]
              /\ sync_queue = [i \in 1..n |-> StoredEntry(i, st[i], at[i])]
    /\ txn_events = << >>
    /\ txn_queue = << >>
    /\ run_pc = "idle"
    /\ run_metrics = << >>
    /\ run_pred = << >>
    /\ run_event_id = Null
    /\ cmd_status = << >>
    /\ insert_ret = "not_called"
    /\ run_error = "none"
    /\ exit_status = << >>
    /\ sync_pc = [p \in Procs |-> "idle"]
    /\ pending = [p \in Procs |-> << >>]
    /\ response = [p \in Procs |-> NoReply]
    /\ sync_ret = [p \in Procs |-> NoReturn]
    /\ faults = 0
    /\ ingested_events = << >>
    /\ last_batch = << >>
    /\ last_reply = NoReply
    /\ event_schema = EVENT_COLUMNS
    /\ queue_schema = TRUE
    /\ setup_pc = [q \in Procs |-> "idle"]
    /\ existing = [q \in Procs |-> {}]
    /\ column_k = [q \in Procs |-> 1]
    /\ NoCalls
    /\ NoRuns
    /\ NoExports

NextApi ==
    \/ Capture
    \/ \E event_ids \in IdLists : MarkSynced(event_ids)
    \/ \E event_ids \in IdLists, error \in ApiErrors :
          MarkSyncFailed(event_ids, error)

SpecApi == InitApi /\ [][NextApi]_vars

\* Events are captured and listed.
NextList ==
    \/ Capture
    \/ \E limit \in Limits : ListEvents(limit)

SpecList == InitApi /\ [][NextList]_vars

\* --------------------------------------- sync passes while the remote is down
\* Line 30 with nothing listening at the endpoint: urlopen raises URLError on
\* every call, and nothing reaches the ingestor.
Refused(p) ==
    /\ sync_pc[p] = "request"
    /\ \A k \in DOMAIN pending[p] : pending[p][k].attempts < MaxPasses
    /\ response' = [response EXCEPT
                      ![p] = Reply("url_error", 0, "none", Missing, 30)]
    /\ sync_pc' = [sync_pc EXCEPT ![p] = "response"]
    /\ UNCHANGED << now, next_id, store_vars, run_vars, pending, sync_ret,
                    faults, remote_vars, setup_vars >>
    /\ UNCHANGED call_vars
    /\ UNCHANGED repo_vars
    /\ UNCHANGED export_vars

\* A step of a sync pass against the unreachable remote.
DownStep ==
    \/ \E batch_size \in BatchSizes : Fetch(1, batch_size)
    \/ Refused(1)
    \/ Complete(1)
    \/ SyncExit(1)

NextDown == Capture \/ DownStep

\* Events keep being captured or not; sync passes keep being invoked, one
\* after the other, and each runs to its end.
SpecDown == Init /\ [][NextDown]_vars /\ WF_vars(DownStep)

\* --------------------------------------------------------- utils.hash_command
\* The separator character "\x1f".
US == "US"

\* Concatenation of a sequence of strings (sequences of characters), sep
\* between each two.
RECURSIVE Join(_, _)
Join(sep, strings) ==
    IF strings = << >> THEN << >>
    ELSE IF Len(strings) = 1 THEN strings[1]
    ELSE strings[1] \o sep \o Join(sep, Tail(strings))

\* hashlib.sha256(...).hexdigest(), taken as injective: the digest stands
\* for the bytes it was computed from.
Sha256(raw) == [digest_of |-> raw]

\* raw = "\x1f".join(command); sha256 of raw.
hash_command(command) == Sha256(Join(<< US >>, command))

\* Command-line arguments: plain ones, an empty one, and ones that hold the
\* separator character.
Tokens ==
    { <<"a">>, <<"b">>, <<"a", "b">>, << >>, << US >>, <<"a", US, "b">>,
      <<"a", US, "a">> }

\* The non-empty argument vectors `devtrace run` accepts.
Commands == { <<t>> : t \in Tokens } \cup { <<t, u>> : t, u \in Tokens }

\* run_command line 45: the command of a run is hashed.
HashCommand(command) ==
    /\ hashed' = (IF Len(hashed) < 2 THEN hashed ELSE Tail(hashed))
                   \o << [command |-> command, hash |-> hash_command(command)] >>
    /\ UNCHANGED << now, next_id, store_vars, run_vars, sync_vars,
                    remote_vars, setup_vars, listed, collected, diffed >>
    /\ UNCHANGED repo_vars
    /\ UNCHANGED export_vars

NextHash == \E command \in Commands : HashCommand(command)

SpecHash == Init /\ [][NextHash]_vars

\* ------------------------------------------ git_metrics.collect_git_diff_metrics
\* int() of a field of a stat line, where it is a number.
IsNumber(text) == text \in {"0", "1", "2", "3"}
int(text) ==
    CASE text = "0" -> 0 [] text = "1" -> 1 [] text = "2" -> 2 [] text = "3" -> 3

\* dict.get(key, default) and dict[key] = value.
Get(dict, key, default) == IF key \in DOMAIN dict THEN dict[key] ELSE default
Put(dict, key, value) ==
    [ k \in (DOMAIN dict) \cup {key} |-> IF k = key THEN value ELSE dict[k] ]

\* A variant that passes over a line with a placeholder.
ParseLineMut(metrics_by_file, parts) ==
    IF parts[1] = "-" \/ parts[2] = "-" THEN metrics_by_file
    ELSE LET current == Get(metrics_by_file, parts[3], <<0, 0>>)
         IN  Put(metrics_by_file, parts[3],
                 << current[1] + int(parts[1]), current[2] + int(parts[2]) >>)

\* Lines 16-26 for a line whose fields convert: the placeholder "-" counts
\* 0, and the path's entry grows by the line.
ParseLine(metrics_by_file, parts) ==
    LET added == IF parts[1] # "-" THEN int(parts[1]) ELSE 0
        deleted == IF parts[2] # "-" THEN int(parts[2]) ELSE 0
        current == Get(metrics_by_file, parts[3], <<0, 0>>)
    IN  Put(metrics_by_file, parts[3],
            << current[1] + added, current[2] + deleted >>)

\* _parse_numstat: the loop over the lines, each split at its tabs.  A line
\* of fewer than three parts is passed over; int() of a field that is
\* neither the placeholder nor a number raises ValueError.
RECURSIVE parse_loop(_, _)
parse_loop(lines, metrics_by_file) ==
    IF lines = << >> THEN [error |-> FALSE, by_file |-> metrics_by_file]
    ELSE LET parts == Head(lines) IN
         IF Len(parts) < 3 THEN parse_loop(Tail(lines), metrics_by_file)
         ELSE IF \/ parts[1] # "-" /\ ~ IsNumber(parts[1])
                 \/ parts[2] # "-" /\ ~ IsNumber(parts[2])
         THEN [error |-> TRUE, by_file |-> metrics_by_file]
         ELSE parse_loop(Tail(lines), ParseLine(metrics_by_file, parts))

_parse_numstat(output) == parse_loop(output, << >>)

\* sum(change[k] for change in combined.values())
RECURSIVE SumValues(_, _)
SumValues(dict, k) ==
    IF DOMAIN dict = {} THEN 0
    ELSE LET key == CHOOSE x \in DOMAIN dict : TRUE
         IN  dict[key][k]
               + SumValues([x \in (DOMAIN dict) \ {key} |-> dict[x]], k)

\* A variant whose staged entry replaces the working-tree entry of a path.
MergeMut(combined, staged) ==
    [ path \in (DOMAIN combined) \cup (DOMAIN staged) |->
        IF path \in DOMAIN staged THEN staged[path] ELSE combined[path] ]

\* Lines 53-55: each staged entry is added to the path's entry.
Merge(combined, staged) ==
    [ path \in (DOMAIN combined) \cup (DOMAIN staged) |->
        LET current == Get(combined, path, <<0, 0>>)
            change == Get(staged, path, <<0, 0>>)
        IN  << current[1] + change[1], current[2] + change[2] >> ]

\* What subprocess.run of a git query gives: OSError when git cannot be
\* started, else a return code and the lines of its output.
OsError == [kind |-> "os_error", returncode |-> 0, stdout |-> << >>]
Completed(returncode, stdout) ==
    [kind |-> "completed", returncode |-> returncode, stdout |-> stdout]

Footprint(touched, lines_added, lines_deleted) ==
    [kind |-> "returned",
     triple |-> << touched, lines_added, lines_deleted >>]
ValueError == [kind |-> "raised", triple |-> << >>]

\* A variant that counts the touched files of the working tree only.
collect_git_diff_metricsMut(result_working, result_staged) ==
    IF result_working.kind = "os_error" \/ result_staged.kind = "os_error"
    THEN Footprint(0, 0, 0)
    ELSE IF result_working.returncode # 0 \/ result_staged.returncode # 0
    THEN Footprint(0, 0, 0)
    ELSE LET working == _parse_numstat(result_working.stdout)
             staged == _parse_numstat(result_staged.stdout)
         IN  IF working.error \/ staged.error THEN ValueError
             ELSE LET combined == Merge(working.by_file, staged.by_file)
                  IN  Footprint(Cardinality(DOMAIN working.by_file),
                                SumValues(combined, 1),
                                SumValues(combined, 2))

\* collect_git_diff_metrics, given what its two queries give.
collect_git_diff_metrics(result_working, result_staged) ==
    IF result_working.kind = "os_error" \/ result_staged.kind = "os_error"
    THEN Footprint(0, 0, 0)
    ELSE IF result_working.returncode # 0 \/ result_staged.returncode # 0
    THEN Footprint(0, 0, 0)
    ELSE LET working == _parse_numstat(result_working.stdout)
             staged == _parse_numstat(result_staged.stdout)
         IN  IF working.error \/ staged.error THEN ValueError
             ELSE LET combined == Merge(working.by_file, staged.by_file)
                  IN  Footprint(Cardinality(DOMAIN combined),
                                SumValues(combined, 1),
                                SumValues(combined, 2))

\* Stat lines: text changes, a binary file, a placeholder in one field, a
\* field that is no number, and a line without tabs.
StatLines ==
    { <<"2", "1", "f">>, <<"3", "0", "g">>, <<"-", "-", "g">>,
      <<"-", "1", "f">>, <<"x", "1", "f">>, <<"junk">> }

Reports ==
    UNION { [1..n -> StatLines] : n \in 0..MaxLines }

\* git missing, git failing (not a repository), and git reporting.
QueryResults ==
    { OsError, Completed(128, << >>) }
        \cup { Completed(0, report) : report \in Reports }

\* to_metrics line 71: the collector is called.
Collect(result_working, result_staged) ==
    /\ diffed = << >>
    /\ diffed' = << result_working, result_staged,
                    collect_git_diff_metrics(result_working, result_staged) >>
    /\ UNCHANGED << now, next_id, store_vars, run_vars, sync_vars,
                    remote_vars, setup_vars, listed, collected, hashed >>
    /\ UNCHANGED repo_vars
    /\ UNCHANGED export_vars

\* to_metrics has built its record or the exception has left it; the next
\* run calls the collector anew.
CollectDone ==
    /\ diffed # << >>
    /\ diffed' = << >>
    /\ UNCHANGED << now, next_id, store_vars, run_vars, sync_vars,
                    remote_vars, setup_vars, listed, collected, hashed >>
    /\ UNCHANGED repo_vars
    /\ UNCHANGED export_vars

NextCollect ==
    \/ \E result_working, result_staged \in QueryResults :
          Collect(result_working, result_staged)
    \/ CollectDone

SpecCollect == Init /\ [][NextCollect]_vars

\* ------------------------------------------ `devtrace run` in a repository
\* The states of the repository: what `git diff --numstat` and `git diff
\* --cached --numstat` report of it.
RepoStates ==
    { CleanRepo,
      [working |-> << <<"2", "1", "f">> >>, staged |-> << >>],
      [working |-> << <<"-", "-", "g">> >>, staged |-> << <<"3", "0", "g">> >>] }

\* A variant that counts one file more than the reports hold.
RepoFootprintMut(r) == << Len(r.working) + Len(r.staged) + 1, 0, 0 >>

\* The triple collect_git_diff_metrics returns in the repository, where git
\* is there and both queries succeed.
RepoFootprint(r) ==
    collect_git_diff_metrics(Completed(0, r.working),
                             Completed(0, r.staged)).triple

\* cli.run_cmd up to insert_command_event, in the repository: the command
\* leaves the repository as `after` (as it was, if it modifies no tracked
\* file or could not be spawned), and the collector reads it right after.
RunInRepo(exec, after, score) ==
    /\ ~ Spawned(exec) => after = repo
    /\ RunCmdStep("ok", 7, exec, RepoFootprint(after), score)
    /\ repo' = after
    /\ last_run' = << repo, after >>

\* The developer edits, stages or commits outside any run.
WorkOutside(after) ==
    /\ run_pc = "idle"
    /\ after # repo
    /\ repo' = after
    /\ UNCHANGED << now, next_id, store_vars, run_vars, sync_vars,
                    remote_vars, setup_vars, call_vars, last_run >>
    /\ UNCHANGED export_vars

NextRepo ==
    \/ \E exec \in ExecOutcomes, after \in RepoStates,
          score \in {"no_model", "error"} : RunInRepo(exec, after, score)
    \/ \E after \in RepoStates : WorkOutside(after)
    \/ \E agent_id \in {4} : InsertEvent(agent_id)
    \/ InsertQueue
    \/ InsertCommit
    \/ InsertAbort
    \/ RunExit

SpecRepo == Init /\ [][NextRepo]_vars

\* ------------------------------------------------------ storage.export_events
EXPORT_COLUMNS ==
    << "command_hash", "duration_ms", "exit_code", "timed_out",
       "files_touched_count", "lines_added", "lines_deleted" >>

\* A variant that exports the predicted score as well.
_export_payloadMut(row) ==
    << << "command_hash", row.command_hash >>,
       << "duration_ms", row.duration_ms >>,
       << "exit_code", row.exit_code >>,
       << "timed_out", BoolToInt(row.timed_out) >>,
       << "files_touched_count", row.files_touched_count >>,
       << "lines_added", row.lines_added >>,
       << "lines_deleted", row.lines_deleted >>,
       << "predicted_productivity", row.predicted_productivity >> >>

\* _export_payload: the dict of the seven fields, in the order it is built,
\* as its (key, value) pairs; timed_out is int(bool).
_export_payload(row) ==
    << << "command_hash", row.command_hash >>,
       << "duration_ms", row.duration_ms >>,
       << "exit_code", row.exit_code >>,
       << "timed_out", BoolToInt(row.timed_out) >>,
       << "files_touched_count", row.files_touched_count >>,
       << "lines_added", row.lines_added >>,
       << "lines_deleted", row.lines_deleted >> >>

\* dict[key] of a dict given as its pairs.
Lookup(pairs, key) ==
    LET k == CHOOSE k \in DOMAIN pairs : pairs[k][1] = key IN pairs[k][2]

\* The text csv writes for a value; json.dumps writes the value as it is.
Text(value) == [text |-> value]

\* csv.DictWriter(fieldnames=_EXPORT_COLUMNS): the header, then of each dict
\* the texts of the fields in the order of the field names.
CsvFile(payload) ==
    [ format |-> "csv",
      header |-> EXPORT_COLUMNS,
      rows |-> [ i \in DOMAIN payload |->
                   [ k \in DOMAIN EXPORT_COLUMNS |->
                       Text(Lookup(payload[i], EXPORT_COLUMNS[k])) ] ] ]

\* One json.dumps(dict) per line: the pairs in the order of the dict.
JsonlFile(payload) ==
    [ format |-> "jsonl", header |-> << >>, rows |-> payload ]

\* DataFrame(payload).to_parquet: the columns in the order of the dicts.
ParquetFile(payload) ==
    [ format |-> "parquet", header |-> << >>, rows |-> payload ]

ExportReturned(fmt, count) ==
    [fmt |-> fmt, kind |-> "returned", count |-> count, read |-> TRUE]
ExportRaised(fmt, error) ==
    [fmt |-> fmt, kind |-> error, count |-> 0, read |-> TRUE]

\* export_events(output_path, fmt): list_command_events, the payload, mkdir
\* of the parent, and then the branch of the format; the format is looked at
\* last.  The output path is one per format, all in one directory.
Export(fmt, pandas) ==
    /\ \E rows \in list_command_events(command_events, << >>) :
         LET payload == [ i \in DOMAIN rows |-> _export_payload(rows[i]) ]
             write(file) ==
                 /\ out_files' = [out_files EXCEPT ![fmt] = << file >>]
                 /\ exported' = << ExportReturned(fmt, Len(payload)) >>
             raise(error) ==
                 /\ out_files' = out_files
                 /\ exported' = << ExportRaised(fmt, error) >>
         IN  CASE fmt = "csv" -> write(CsvFile(payload))
               [] fmt = "parquet" ->
                    IF pandas THEN write(ParquetFile(payload))
                    ELSE raise("RuntimeError")
               [] fmt = "jsonl" -> write(JsonlFile(payload))
               [] OTHER -> raise("ValueError")
    /\ out_parent' = TRUE
    /\ UNCHANGED << now, next_id, store_vars, run_vars, sync_vars,
                    remote_vars, setup_vars, call_vars, repo_vars >>

\* Events of commands that exited or timed out, scored or not, are stored.
CaptureScored ==
    \E exec \in { [kind |-> "exit", code |-> 0, elapsed |-> 5],
                  [kind |-> "timeout", code |-> 0, elapsed |-> 9] },
       scored \in BOOLEAN :
       LET metrics == run_command(7, exec, <<1, 2, 1>>)
       IN  InsertCommand(4, metrics,
                         IF scored THEN << score_single_event(metrics) >>
                         ELSE << >>)

NextExport ==
    \/ CaptureScored
    \/ \E fmt \in Formats, pandas \in BOOLEAN : Export(fmt, pandas)

SpecExport == Init /\ [][NextExport]_vars

\* --------------------------------- a sync pass alongside runs that insert
\* `devtrace run` step by step and one pass of `devtrace sync` whose batch
\* size takes every pending event, in any interleaving.
NextAlongside ==
    \/ Tick
    \/ RunCmd("ok", 7, [kind |-> "exit", code |-> 0, elapsed |-> 5],
              <<1, 2, 1>>, "no_model")
    \/ \E agent_id \in {4} : InsertEvent(agent_id)
    \/ InsertQueue
    \/ InsertCommit
    \/ InsertAbort
    \/ RunExit
    \/ Fetch(1, MaxEvents)
    \/ Deliver(1)
    \/ \E reply \in SomeFaultReplies(Len(pending[1])),
           reached \in BOOLEAN : DeliverFault(1, reply, reached)
    \/ Complete(1)
    \/ SyncExit(1)
    \/ SyncCrash(1)

SpecAlongside == Init /\ [][NextAlongside]_vars

\* ------------------------------------------------------------------ claims
Ids(table, column) == {table[i][column] : i \in DOMAIN table}

\* C4: insert is atomic over its two rows.  While the insert is running and
\* after it failed or crashed, the store holds neither the event row nor the
\* queue row of its id; after it succeeded the store holds both; and in every
\* state the two tables hold rows for the same ids.
C4_InsertAtomic ==
    /\ Ids(command_events, "id") = Ids(sync_queue, "event_id")
    /\ (TxnOpen \/ insert_ret = "raised") =>
          /\ run_event_id \notin Ids(command_events, "id")
          /\ run_event_id \notin Ids(sync_queue, "event_id")
    /\ insert_ret = "id" =>
          /\ Cardinality({i \in DOMAIN command_events :
                            command_events[i].id = run_event_id}) = 1
          /\ Cardinality({i \in DOMAIN sync_queue :
                            sync_queue[i].event_id = run_event_id}) = 1

\* C4 witness: an insert failed after an earlier one had succeeded.
C4_Witness ==
    /\ insert_ret = "raised"
    /\ run_event_id = 2
    /\ Len(command_events) = 1

\* C5: insert called with files_touched = lines_added = lines_deleted = 0
\* returns none and leaves both tables unchanged, and no stored event has all
\* three values zero.
C5_ZeroDiffSkipped ==
    /\ [](\A i \in DOMAIN command_events :
            ~ /\ command_events[i].files_touched_count = 0
              /\ command_events[i].lines_added = 0
              /\ command_events[i].lines_deleted = 0)
    /\ [][ ( /\ run_pc = "insert"
             /\ run_pc' # "insert"
             /\ run_metrics[1].files_touched_count = 0
             /\ run_metrics[1].lines_added = 0
             /\ run_metrics[1].lines_deleted = 0 )
           => ( /\ insert_ret' = "none"
                /\ store_vars' = store_vars ) ]_vars

\* C5 witness: insert returned none while the store already held an event.
C5_Witness ==
    /\ insert_ret = "none"
    /\ Len(command_events) = 1
    /\ Len(sync_queue) = 1

\* C6: the exit status `devtrace run` reports is the wrapped command's exit
\* status (124 after a timeout) whatever the storage outcome: the command was
\* executed and its status is the one returned.  (A command that could not be
\* spawned has no status and is left out.)
C6_ExitStatusIsCommandStatus ==
    (run_pc = "exited" /\ run_error # "ExecutionError") =>
        /\ cmd_status # << >>
        /\ exit_status = cmd_status


\* The sync_queue rows of an event id.
QueueRows(queue, id) == {j \in DOMAIN queue : queue[j].event_id = id}

\* C1: a pass whose batch has K >= 1 ids and whose reply is a success status
\* with an accepted count below K marks no id synced: every id of the batch is
\* still pending, its attempts are one more than fetched (and than before
\* the marking), and the pass returns (0, K).
C1_PartialAcceptFailsBatch ==
    [][ \A p \in Procs :
          ( /\ Complete(p)
            /\ response[p].transport = "ok"
            /\ response[p].code = HTTP_OK
            /\ response[p].body = "object"
            /\ response[p].accepted \in 0..(Len(pending[p]) - 1) )
          => /\ sync_ret'[p] = Returned(0, Len(pending[p]))
             /\ \A k \in DOMAIN pending[p] :
                  /\ QueueRows(sync_queue', pending[p][k]["id"]) # {}
                  /\ \A j \in QueueRows(sync_queue', pending[p][k]["id"]) :
                       /\ sync_queue'[j].status = "pending"
                       /\ sync_queue'[j].attempts = sync_queue[j].attempts + 1
                       /\ sync_queue'[j].attempts
                            = pending[p][k]["attempts"] + 1 ]_vars

\* C1 witness: a pass returned (0, 2) after the remote accepted 1 of 2; both
\* entries are pending with one attempt.
C1_Witness ==
    /\ sync_pc[1] = "returned"
    /\ sync_ret[1] = Returned(0, 2)
    /\ Len(pending[1]) = 2
    /\ \A j \in DOMAIN sync_queue :
         /\ sync_queue[j].status = "pending"
         /\ sync_queue[j].attempts = 1
         /\ sync_queue[j].last_error.kind = "RuntimeError"
         /\ sync_queue[j].last_error.arg = 1

\* C2: a pass whose batch has K >= 1 ids and whose reply is a success status
\* with accepted = K marks every id synced, leaves the attempts as fetched
\* (and as before the marking), and returns (K, 0).
C2_FullAcceptSyncsBatch ==
    [][ \A p \in Procs :
          ( /\ Complete(p)
            /\ response[p].transport = "ok"
            /\ response[p].code = HTTP_OK
            /\ response[p].body = "object"
            /\ response[p].accepted = Len(pending[p]) )
          => /\ sync_ret'[p] = Returned(Len(pending[p]), 0)
             /\ \A k \in DOMAIN pending[p] :
                  /\ QueueRows(sync_queue', pending[p][k]["id"]) # {}
                  /\ \A j \in QueueRows(sync_queue', pending[p][k]["id"]) :
                       /\ sync_queue'[j].status = "synced"
                       /\ sync_queue'[j].attempts = sync_queue[j].attempts
                       /\ sync_queue'[j].attempts
                            = pending[p][k]["attempts"] ]_vars

\* C2 witness: a pass returned (2, 0) for two entries that had failed once
\* before; both are synced and still count one attempt.
C2_Witness ==
    /\ sync_pc[1] = "returned"
    /\ sync_ret[1] = Returned(2, 0)
    /\ Len(sync_queue) = 2
    /\ \A j \in DOMAIN sync_queue :
         /\ sync_queue[j].status = "synced"
         /\ sync_queue[j].attempts = 1

\* C3: sync_pending_events never raises a transport or protocol error: for a
\* connection error, a request or read timeout, a non-success status, a body
\* that is not JSON or not a JSON object, or an accepted value that is no
\* integer, the pass returns (0, K) and the ids of the batch are marked
\* failed.
C3_NeverRaises ==
    [][ \A p \in Procs :
          ( /\ Complete(p)
            /\ \/ response[p].transport \in {"url_error", "read_timeout"}
               \/ response[p].code # HTTP_OK
               \/ response[p].body \in {"not_json", "not_object"}
               \/ response[p].accepted \in {Null, Bad} )
          => /\ sync_ret'[p] = Returned(0, Len(pending[p]))
             /\ \A k \in DOMAIN pending[p] :
                  \A j \in QueueRows(sync_queue', pending[p][k]["id"]) :
                     sync_queue'[j].attempts = sync_queue[j].attempts + 1 ]_vars

\* C7: synced is terminal.  An event id that has a synced sync_queue row keeps
\* it: after every step the id still has its rows and none of them is pending.
C7_SyncedIsTerminal ==
    [][ \A j \in DOMAIN sync_queue :
          sync_queue[j].status = "synced"
          => /\ QueueRows(sync_queue', sync_queue[j].event_id) # {}
             /\ \A i \in QueueRows(sync_queue', sync_queue[j].event_id) :
                  sync_queue'[i].status = "synced" ]_vars

\* C7 witness: two passes held the same entry; one returned (1, 0) and the
\* other (0, 1), so markSynced and markSyncFailed both acted on it, and the
\* entry is synced.
C7_Witness ==
    /\ sync_pc[1] = "returned"
    /\ sync_pc[2] = "returned"
    /\ sync_ret[1] = Returned(1, 0)
    /\ sync_ret[2] = Returned(0, 1)
    /\ pending[1][1]["id"] = pending[2][1]["id"]
    /\ \E j \in DOMAIN sync_queue :
         /\ sync_queue[j].event_id = pending[1][1]["id"]
         /\ sync_queue[j].status = "synced"
         /\ sync_queue[j].attempts = 1

\* C8: at-least-once delivery.  While sync passes keep being invoked, and once
\* the remote has stopped failing, every event with a pending entry is
\* eventually synced and held by the remote store, for batch sizes 1 and 2
\* and after earlier failed attempts.
C8_EventuallyDelivered ==
    \A id \in 1..MaxEvents :
        (\E j \in QueueRows(sync_queue, id) : sync_queue[j].status = "pending")
        ~> ( /\ \E j \in QueueRows(sync_queue, id) :
                  sync_queue[j].status = "synced"
             /\ id \in Ids(ingested_events, "id") )

\* C8 witness: an entry that failed once is synced and its event is in the
\* remote store.
C8_Witness ==
    \E j \in DOMAIN sync_queue :
        /\ sync_queue[j].status = "synced"
        /\ sync_queue[j].attempts = 1
        /\ sync_queue[j].event_id \in Ids(ingested_events, "id")

\* C9: batch-accept is idempotent per event id.  The remote store never holds
\* two rows with the same id, a stored row never changes or goes, and posting
\* the batch that was posted last once more leaves the store as it is.
C9_IngestIdempotent ==
    /\ [](\A i, j \in DOMAIN ingested_events :
            i # j => ingested_events[i].id # ingested_events[j].id)
    /\ [][ /\ \A i \in DOMAIN ingested_events :
                /\ i \in DOMAIN ingested_events'
                /\ ingested_events'[i] = ingested_events[i]
           /\ (last_reply # NoReply /\ last_batch' = last_batch)
                => ingested_events' = ingested_events ]_vars

\* C10: batch-accept answers with the count of the events it accepted.  The
\* count is the number of events of the batch that have every required field,
\* each of those is in the store afterwards, and an event that lacks a
\* required field adds no row.
C10_AcceptedCount ==
    /\ [](last_reply # NoReply =>
            LET complete == {k \in DOMAIN last_batch :
                               REQUIRED \subseteq DOMAIN last_batch[k]}
            IN  /\ last_reply.code = HTTP_OK
                /\ last_reply.accepted = Cardinality(complete)
                /\ \A k \in complete :
                     last_batch[k]["id"] \in Ids(ingested_events, "id"))
    /\ [][ Len(ingested_events') - Len(ingested_events)
             <= Cardinality({k \in DOMAIN last_batch' :
                               REQUIRED \subseteq DOMAIN last_batch'[k]}) ]_vars

\* The number of rows of the remote store with the given id.
RemoteCount(id) ==
    Cardinality({i \in DOMAIN ingested_events : ingested_events[i].id = id})

\* Every id of the batch of pass p is held by the remote store.
Resubmission(p) ==
    /\ pending[p] # << >>
    /\ \A k \in DOMAIN pending[p] :
         pending[p][k]["id"] \in Ids(ingested_events, "id")

\* C11: crash recovery of a sync pass.  A pass that dies after the remote
\* accepted its batch of K events leaves the K entries pending with the
\* attempts it fetched; a later pass that delivers a batch of ids the remote
\* already holds is answered accepted = K and the remote store does not
\* change, holding each id once; and on that answer the pass marks the K
\* entries synced with their attempts unchanged.
C11_CrashRecovery ==
    [][ \A p \in Procs :
          LET K == Len(pending[p])
              accepted == Reply("ok", HTTP_OK, "object", K, 0)
          IN
          /\ ( /\ SyncCrash(p)
               /\ sync_pc[p] = "response"
               /\ response[p] = accepted )
             => /\ sync_queue' = sync_queue
                /\ \A k \in DOMAIN pending[p] :
                     /\ pending[p][k]["id"] \in Ids(ingested_events', "id")
                     /\ \A j \in QueueRows(sync_queue', pending[p][k]["id"]) :
                          /\ sync_queue'[j].status = "pending"
                          /\ sync_queue'[j].attempts
                               = pending[p][k]["attempts"]
          /\ (Deliver(p) /\ Resubmission(p))
             => /\ response'[p] = accepted
                /\ ingested_events' = ingested_events
                /\ \A k \in DOMAIN pending[p] :
                     Cardinality({i \in DOMAIN ingested_events' :
                        ingested_events'[i].id = pending[p][k]["id"]}) = 1
          /\ (Complete(p) /\ Resubmission(p) /\ response[p] = accepted)
             => /\ sync_ret'[p] = Returned(K, 0)
                /\ \A k \in DOMAIN pending[p] :
                     /\ RemoteCount(pending[p][k]["id"]) = 1
                     /\ QueueRows(sync_queue', pending[p][k]["id"]) # {}
                     /\ \A j \in QueueRows(sync_queue', pending[p][k]["id"]) :
                          /\ sync_queue'[j].status = "synced"
                          /\ sync_queue'[j].attempts
                               = pending[p][k]["attempts"] ]_vars

\* C11 witness: the next pass holds a batch of two ids for delivery; the
\* remote store already has both, and the entries are pending and were never
\* marked (no attempt counted, no pass returned for them).
C11_Witness ==
    /\ sync_pc[1] = "request"
    /\ Len(pending[1]) = 2
    /\ Resubmission(1)
    /\ faults = 1
    /\ \A j \in DOMAIN sync_queue :
         /\ sync_queue[j].status = "pending"
         /\ sync_queue[j].attempts = 0
         /\ sync_queue[j].last_error = NullError

\* C12: two concurrent passes that fetched the same batch and both had their
\* delivery accepted end with every id of the batch synced, its attempts as
\* fetched, and the remote store holding each id exactly once, whatever the
\* order of their fetch, deliver and mark steps.
C12_ConcurrentPassesSameBatch ==
    ( /\ sync_pc[1] = "returned"
      /\ sync_pc[2] = "returned"
      /\ pending[1] # << >>
      /\ pending[1] = pending[2]
      /\ sync_ret[1] = Returned(Len(pending[1]), 0)
      /\ sync_ret[2] = Returned(Len(pending[2]), 0) )
    => \A k \in DOMAIN pending[1] :
         /\ RemoteCount(pending[1][k]["id"]) = 1
         /\ QueueRows(sync_queue, pending[1][k]["id"]) # {}
         /\ \A j \in QueueRows(sync_queue, pending[1][k]["id"]) :
              /\ sync_queue[j].status = "synced"
              /\ sync_queue[j].attempts = pending[1][k]["attempts"]

\* C12 witness: both passes returned (2, 0) for the same two records; both
\* entries are synced and the remote store has two rows.
C12_Witness ==
    /\ sync_pc[1] = "returned"
    /\ sync_pc[2] = "returned"
    /\ Len(pending[1]) = 2
    /\ pending[1] = pending[2]
    /\ sync_ret[1] = Returned(2, 0)
    /\ sync_ret[2] = Returned(2, 0)
    /\ Len(ingested_events) = 2
    /\ \A j \in DOMAIN sync_queue : sync_queue[j].status = "synced"

\* How often the table command_events has the given column.
ColumnCount(column) ==
    Cardinality({k \in DOMAIN event_schema : event_schema[k] = column})

\* The store has both tables and every column of command_events.
CurrentShape ==
    /\ Range(EVENT_COLUMNS) \subseteq Range(event_schema)
    /\ queue_schema

\* C13: ensure_storage is safe to call from independent processes.  In every
\* interleaving of two runs, on a store with no table, an older table or the
\* present one, no run ends with an error, and once both have completed the
\* table has each prediction column exactly once.
C13_ConcurrentSetupSafe ==
    /\ \A q \in Procs : setup_pc[q] # "raised"
    /\ (\A q \in Procs : setup_pc[q] = "done")
         => \A k \in DOMAIN PREDICTION_COLUMNS :
              ColumnCount(PREDICTION_COLUMNS[k]) = 1

\* C14: the migration only adds columns.  A completed ensure_storage run
\* leaves command_events with each of the four prediction columns, and no
\* step of it removes a row, removes or moves a column, or changes a value a
\* row had.
C14_MigrationAddsOnly ==
    /\ [](setup_pc[1] = "done"
            => \A k \in DOMAIN PREDICTION_COLUMNS :
                 ColumnCount(PREDICTION_COLUMNS[k]) = 1)
    /\ [][ /\ Len(event_schema') >= Len(event_schema)
           /\ SubSeq(event_schema', 1, Len(event_schema)) = event_schema
           /\ Len(command_events') = Len(command_events)
           /\ \A i \in DOMAIN command_events :
                \A c \in DOMAIN command_events[i] :
                   /\ c \in DOMAIN command_events'[i]
                   /\ command_events'[i][c] = command_events[i][c] ]_vars

\* C14 witness: a run completed on a table that had only the base columns
\* and two rows; the table has the four prediction columns, NULL in both
\* rows, and the rows have their base values.
C14_Witness ==
    /\ setup_pc[1] = "done"
    /\ Range(PREDICTION_COLUMNS) \subseteq Range(event_schema)
    /\ Len(command_events) = 2
    /\ \A i \in DOMAIN command_events :
         /\ \A k \in DOMAIN PREDICTION_COLUMNS :
              command_events[i][PREDICTION_COLUMNS[k]] = Null
         /\ \A k \in DOMAIN BASE_COLUMNS :
              command_events[i][BASE_COLUMNS[k]]
                = PriorRow(i, BASE_COLUMNS)[BASE_COLUMNS[k]]

\* C15: ensure_storage is idempotent.  A completed run leaves both tables in
\* their present shape, and on such a store no step of a further run changes
\* the schema or a row of either table, and no further run ends in an error.
C15_SetupIdempotent ==
    /\ [](setup_pc[1] = "done" => CurrentShape)
    /\ [][ CurrentShape
             => /\ event_schema' = event_schema
                /\ queue_schema' = queue_schema
                /\ command_events' = command_events
                /\ sync_queue' = sync_queue
                /\ setup_pc'[1] # "raised" ]_vars

\* C15 witness: a run completed that found every prediction column when it
\* probed, on a store an earlier run had migrated from the base columns (the
\* two rows read NULL in the prediction columns); the queue entries are as
\* they were.
C15_Witness ==
    /\ setup_pc[1] = "done"
    /\ Range(PREDICTION_COLUMNS) \subseteq existing[1]
    /\ CurrentShape
    /\ Len(command_events) = 2
    /\ \A i \in DOMAIN command_events :
         \A k \in DOMAIN PREDICTION_COLUMNS :
            command_events[i][PREDICTION_COLUMNS[k]] = Null
    /\ sync_queue = [i \in 1..2 |-> PriorEntry(i)]

\* The reply reports an accepted count equal to the batch size K.
ReportsAccepted(reply, K) ==
    /\ reply.transport = "ok"
    /\ reply.body = "object"
    /\ reply.accepted = K

\* C16: a delivery is judged failed if and only if the transport errors or
\* times out, the status is no success code, or the reply does not report an
\* accepted count equal to the batch size K (a larger count and a reply
\* without the field included).  In those cases the pass marks the batch
\* failed and returns (0, K), no id becoming synced; in all other cases it
\* marks every id synced and returns (K, 0).
C16_JudgedFailedIff ==
    [][ \A p \in Procs :
          Complete(p) =>
            LET K == Len(pending[p])
                reply == response[p]
                failing ==
                    \/ reply.transport \in {"url_error", "read_timeout"}
                    \/ reply.code < 200
                    \/ reply.code >= 300
                    \/ ~ ReportsAccepted(reply, K)
            IN  IF failing
                THEN /\ sync_ret'[p] = Returned(0, K)
                     /\ \A j \in DOMAIN sync_queue :
                          sync_queue'[j].status = sync_queue[j].status
                     /\ \A k \in DOMAIN pending[p] :
                          \A j \in QueueRows(sync_queue', pending[p][k]["id"]) :
                             sync_queue'[j].attempts
                               = sync_queue[j].attempts + 1
                ELSE /\ sync_ret'[p] = Returned(K, 0)
                     /\ \A k \in DOMAIN pending[p] :
                          \A j \in QueueRows(sync_queue', pending[p][k]["id"]) :
                             sync_queue'[j].status = "synced" ]_vars

C18_OneEntryPerEvent ==
    /\ [](\A i \in DOMAIN command_events :
            Cardinality(QueueRows(sync_queue, command_events[i].id)) <= 1)
    /\ [](\A j \in DOMAIN sync_queue :
            sync_queue[j].event_id \in Ids(command_events, "id"))
    /\ [][ \A id \in Ids(command_events', "id") \ Ids(command_events, "id") :
             \E j \in DOMAIN sync_queue' :
                /\ QueueRows(sync_queue', id) = {j}
                /\ sync_queue'[j] = [ event_id |-> id,
                                      status |-> "pending",
                                      attempts |-> 0,
                                      last_attempt_at |-> Null,
                                      last_error |-> NullError ] ]_vars

\* C18 witness: two events with one entry each; the first is synced, the
\* second was just created and is pending with attempts 0 and no error.
C18_Witness ==
    /\ Len(command_events) = 2
    /\ Len(sync_queue) = 2
    /\ sync_queue[1].event_id = command_events[1].id
    /\ sync_queue[1].status = "synced"
    /\ sync_queue[2].event_id = command_events[2].id
    /\ sync_queue[2].status = "pending"
    /\ sync_queue[2].attempts = 0
    /\ sync_queue[2].last_error = NullError

\* C19: no row of command_events or sync_queue is ever deleted, and a stored
\* command event keeps every field value it was created with, across
\* inserts, sync passes with their pendingSync, markSynced and markSyncFailed
\* calls, and ensure_storage runs.
C19_RowsPermanent ==
    [][ /\ \A i \in DOMAIN command_events :
             /\ i \in DOMAIN command_events'
             /\ command_events'[i] = command_events[i]
        /\ \A j \in DOMAIN sync_queue :
             QueueRows(sync_queue', sync_queue[j].event_id) # {} ]_vars

\* C19 witness: after an ensure_storage run, a delivered batch and a failed
\* one, the store has both events and both entries, one synced and one
\* pending with an attempt counted.
C19_Witness ==
    /\ setup_pc[1] = "done"
    /\ Len(command_events) = 2
    /\ Len(sync_queue) = 2
    /\ \E j \in DOMAIN sync_queue : sync_queue[j].status = "synced"
    /\ \E j \in DOMAIN sync_queue :
         /\ sync_queue[j].status = "pending"
         /\ sync_queue[j].attempts = 1

\* The sync_queue rows with status pending.
PendingEntries == {j \in DOMAIN sync_queue : sync_queue[j].status = "pending"}

\* C20: for every batch size, pending_sync_events returns min(batch size,
\* number of pending entries) records, in ascending execution time, each the
\* data of one command event joined with the attempts of its pending entry,
\* no entry twice, and every pending entry it leaves out is no older than
\* any it returns.
C20_PendingSyncOldestFirst ==
    \A batch_size \in 0..(MaxEvents + 1) :
      \A r \in pending_sync_events(command_events, sync_queue, batch_size) :
        /\ Len(r) = Min(batch_size, Cardinality(PendingEntries))
        /\ \A a, b \in DOMAIN r :
             a < b => /\ r[a]["executed_at"] <= r[b]["executed_at"]
                      /\ r[a]["id"] # r[b]["id"]
        /\ \A k \in DOMAIN r :
             \E i \in DOMAIN command_events, j \in PendingEntries :
                /\ command_events[i].id = r[k]["id"]
                /\ sync_queue[j].event_id = r[k]["id"]
                /\ r[k]["attempts"] = sync_queue[j].attempts
                /\ r[k]["timed_out"] = (command_events[i].timed_out # 0)
                /\ \A c \in Range(EVENT_COLUMNS) \ {"timed_out"} :
                     r[k][c] = command_events[i][c]
        /\ \A j \in PendingEntries :
             (\A k \in DOMAIN r : r[k]["id"] # sync_queue[j].event_id)
             => \A i \in DOMAIN command_events :
                  command_events[i].id = sync_queue[j].event_id
                  => \A k \in DOMAIN r :
                       r[k]["executed_at"] <= command_events[i].executed_at

\* C20 witness: two pending events executed at instants 0 and 1, and a pass
\* that fetched with batch size 1 holds the one executed at 0.
C20_Witness ==
    /\ sync_pc[1] = "request"
    /\ Len(pending[1]) = 1
    /\ pending[1][1]["executed_at"] = 0
    /\ Len(command_events) = 2
    /\ command_events[1].executed_at = 0
    /\ command_events[2].executed_at = 1
    /\ Cardinality(PendingEntries) = 2

\* C21: mark_sync_failed(ids, error) adds 1 to the attempts of an entry for
\* each time its id is given, records the attempt timestamp and the error cut
\* to at most 500 characters, and leaves the status as it is (a pending entry
\* stays pending); entries whose id is not given and all command_events rows
\* are unchanged.
C21_MarkSyncFailedEffect ==
    [][ \A event_ids \in IdLists, error \in ApiErrors :
          MarkSyncFailed(event_ids, error)
          => /\ command_events' = command_events
             /\ DOMAIN sync_queue' = DOMAIN sync_queue
             /\ \A j \in DOMAIN sync_queue :
                  LET n == Occurrences(event_ids, sync_queue[j].event_id) IN
                  IF n = 0
                  THEN sync_queue'[j] = sync_queue[j]
                  ELSE /\ sync_queue'[j].event_id = sync_queue[j].event_id
                       /\ sync_queue'[j].attempts = sync_queue[j].attempts + n
                       /\ sync_queue'[j].status = sync_queue[j].status
                       /\ sync_queue'[j].last_attempt_at = now
                       /\ sync_queue'[j].last_error.kind = error.kind
                       /\ sync_queue'[j].last_error.arg = error.arg
                       /\ sync_queue'[j].last_error.len
                            = Min(error.len, ERROR_LIMIT)
                       /\ sync_queue'[j].last_error.len <= 500 ]_vars

\* C21 witness: the first entry is pending with two attempts counted at
\* instant 1 and an error text cut to 500 characters; the second entry is as
\* insert left it.
C21_Witness ==
    /\ Len(sync_queue) = 2
    /\ sync_queue[1].status = "pending"
    /\ sync_queue[1].attempts = 2
    /\ sync_queue[1].last_attempt_at = 1
    /\ sync_queue[1].last_error = SyncError("URLError", 0, 500)
    /\ sync_queue[2] = StoredEntry(2, "pending", 0)

\* C22: mark_synced(ids) sets the status of each given id synced and records
\* the attempt timestamp, leaving its attempts and last error as they are;
\* entries whose id is not given and all command_events rows are unchanged,
\* and mark_synced of no ids changes nothing.
C22_MarkSyncedEffect ==
    [][ \A event_ids \in IdLists :
          MarkSynced(event_ids)
          => /\ command_events' = command_events
             /\ DOMAIN sync_queue' = DOMAIN sync_queue
             /\ event_ids = << >> => sync_queue' = sync_queue
             /\ \A j \in DOMAIN sync_queue :
                  IF Occurrences(event_ids, sync_queue[j].event_id) = 0
                  THEN sync_queue'[j] = sync_queue[j]
                  ELSE sync_queue'[j] =
                         [sync_queue[j] EXCEPT !.status = "synced",
                                               !.last_attempt_at = now] ]_vars

\* C22 witness: the first entry is synced at instant 1 and still has the
\* attempt and the error of its failure; the second entry is pending as
\* insert left it.
C22_Witness ==
    /\ Len(sync_queue) = 2
    /\ sync_queue[1].status = "synced"
    /\ sync_queue[1].attempts = 1
    /\ sync_queue[1].last_attempt_at = 1
    /\ sync_queue[1].last_error = SyncError("RuntimeError", 1, 24)
    /\ sync_queue[2] = StoredEntry(2, "pending", 0)

\* C23: there is no maximum-attempts cutoff.  While the remote is unreachable,
\* every pending entry is among the results of pending_sync_events whatever
\* its attempts, every pass adds exactly 1 to the attempts of each entry of its
\* batch and leaves it pending, no entry ever leaves pending, and once an
\* event is stored the attempts of some entry grow up to any bound (here
\* MaxPasses).
C23_NoAttemptsCutoff ==
    /\ [](\A j \in DOMAIN sync_queue :
            /\ sync_queue[j].status = "pending"
            /\ \E records \in pending_sync_events(command_events, sync_queue,
                                                  Len(sync_queue)) :
                 \E k \in DOMAIN records :
                    /\ records[k]["id"] = sync_queue[j].event_id
                    /\ records[k].attempts = sync_queue[j].attempts)
    /\ [][ Complete(1)
           => \A j \in DOMAIN sync_queue :
                /\ sync_queue'[j].status = "pending"
                /\ sync_queue'[j].attempts =
                     sync_queue[j].attempts
                       + Occurrences(EventIds(pending[1]),
                                     sync_queue[j].event_id) ]_vars
    /\ (sync_queue # << >>)
         ~> (\E j \in DOMAIN sync_queue :
               /\ sync_queue[j].attempts = MaxPasses
               /\ sync_queue[j].status = "pending")

\* C23 witness: a pass has just failed on an entry that had failed twice
\* before: the entry is pending with three attempts.
C23_Witness ==
    /\ sync_pc[1] = "returned"
    /\ sync_ret[1] = Returned(0, Len(pending[1]))
    /\ \E k \in DOMAIN pending[1] :
         /\ pending[1][k].attempts = MaxPasses - 1
         /\ \E j \in DOMAIN sync_queue :
              /\ sync_queue[j].event_id = pending[1][k]["id"]
              /\ sync_queue[j].attempts = MaxPasses
              /\ sync_queue[j].status = "pending"

\* C24: list_command_events returns stored events in ascending order of
\* execution time; with a limit N it returns Min(N, stored) events, each of
\* which was executed no later than every event it leaves out, and without a
\* limit it returns every stored event.
C24_ListEarliestFirst ==
    [][ \A limit \in Limits :
          ListEvents(limit)
          => LET records == listed'[2]
                 stored == { EventRecord(command_events[i]) :
                               i \in DOMAIN command_events }
                 given == Range(records)
             IN  /\ listed'[1] = limit
                 /\ given \subseteq stored
                 /\ Cardinality(given) = Len(records)
                 /\ \A a, b \in DOMAIN records :
                      a < b => records[a].executed_at <= records[b].executed_at
                 /\ limit = << >> => given = stored
                 /\ limit # << >>
                      => /\ Len(records) = Min(limit[1], Len(command_events))
                         /\ \A r \in given, e \in stored \ given :
                              r.executed_at <= e.executed_at ]_vars

\* C24 witness: the event stored second was executed first, and a list with
\* limit 1 has returned it alone.
C24_Witness ==
    /\ Len(command_events) = 2
    /\ command_events[2].executed_at < command_events[1].executed_at
    /\ listed = << <<1>>, << EventRecord(command_events[2]) >> >>

\* C25: when the timeout expires run_command gives timed_out = true and
\* exit_code = 124; on normal completion it gives timed_out = false and the
\* exit code of the process.  So timed_out implies exit_code = 124 in every
\* metrics record, and the duration is never negative.
C25_ExecutorOutcome ==
    /\ [](\A k \in DOMAIN run_metrics :
            /\ run_metrics[k].timed_out => run_metrics[k].exit_code = 124
            /\ run_metrics[k].duration_ms >= 0)
    /\ [][ \A r \in RunInputs :
             RunCmd(r[1], r[2], r[3], r[4], r[5]) /\ run_metrics' # << >>
             => LET exec == r[3]
                    metrics == run_metrics'[1]
                IN  /\ exec.kind \in {"timeout", "exit"}
                    /\ exec.kind = "timeout"
                         => metrics.timed_out /\ metrics.exit_code = 124
                    /\ exec.kind = "exit"
                         => ~ metrics.timed_out
                            /\ metrics.exit_code = exec.code ]_vars

\* C25 witness: a run whose command timed out holds its metrics, timed_out
\* with exit code 124.
C25_Witness ==
    /\ run_metrics # << >>
    /\ run_metrics[1].timed_out
    /\ run_metrics[1].exit_code = TIMEOUT_EXIT
    /\ run_metrics[1].duration_ms = 9

\* C26: when the process cannot be spawned the run ends with an error: there
\* is no metrics record, the collector has not been consulted,
\* insert_command_event is not called and the tables are as they were.
C26_SpawnFailureFatal ==
    [][ \A r \in RunInputs :
          RunCmd(r[1], r[2], r[3], r[4], r[5])
            /\ r[1] = "ok" /\ r[3].kind = "spawn_error"
          => /\ run_metrics' = << >>
             /\ collected' = << >>
             /\ run_error' = "ExecutionError"
             /\ exit_status' = << ERROR_EXIT >>
             /\ run_pc' = "exited"
             /\ insert_ret' = "not_called"
             /\ cmd_status' = << >>
             /\ UNCHANGED << store_vars, next_id >> ]_vars

\* C26 witness: a run has ended on the spawn failure while the store holds an
\* event of an earlier run.
C26_Witness ==
    /\ run_pc = "exited"
    /\ run_error = "ExecutionError"
    /\ run_metrics = << >>
    /\ Len(command_events) = 1

\* C27: over non-empty argument vectors, two vectors have the same command
\* hash only if they are the same vector (and the same vector always has the
\* same hash), whether or not a token holds the separator character.
C27_HashDistinguishesVectors ==
    \A a, b \in DOMAIN hashed :
       hashed[a].hash = hashed[b].hash <=> hashed[a].command = hashed[b].command

\* The parsed lines of a report: those of at least three parts.
StatOf(report) == SelectSeq(report, LAMBDA parts : Len(parts) >= 3)

\* What a field of a stat line counts: its number, 0 for the placeholder.
Counted(text) == IF text = "-" THEN 0 ELSE int(text)

\* The sum of field k over the lines of a report for one path.
RECURSIVE Reported(_, _, _)
Reported(lines, path, k) ==
    IF lines = << >> THEN 0
    ELSE (IF Head(lines)[3] = path THEN Counted(Head(lines)[k]) ELSE 0)
           + Reported(Tail(lines), path, k)

\* The sum of field k over all lines of a report.
RECURSIVE Total(_, _)
Total(lines, k) ==
    IF lines = << >> THEN 0
    ELSE Counted(Head(lines)[k]) + Total(Tail(lines), k)

\* The paths of the lines of a report.
Paths(lines) == { lines[i][3] : i \in DOMAIN lines }

\* C30: the collector never raises: whatever its two queries give (git
\* missing, a query failing, output with a field that is neither a number
\* nor the placeholder) it returns a triple, and the triple is (0, 0, 0)
\* whenever either query is unavailable or fails.
C30_CollectorNeverRaises ==
    diffed # << >>
    => /\ diffed[3].kind = "returned"
       /\ (\E k \in {1, 2} :
              diffed[k].kind = "os_error" \/ diffed[k].returncode # 0)
            => diffed[3].triple = <<0, 0, 0>>

\* C28: when both queries succeed and every line parses, the footprint is
\* the per-path union of the two reports: files_touched is the number of
\* distinct paths of the two reports together (not the number of lines), and
\* lines_added and lines_deleted are the sums over all lines of both reports,
\* so that a path in both reports counts once and with both its deltas.
C28_FootprintIsMergedUnion ==
    diffed # << >> /\ diffed[3].kind = "returned"
      /\ diffed[1].kind = "completed" /\ diffed[1].returncode = 0
      /\ diffed[2].kind = "completed" /\ diffed[2].returncode = 0
    => LET working == StatOf(diffed[1].stdout)
           staged == StatOf(diffed[2].stdout)
           paths == Paths(working) \cup Paths(staged)
           combined == Merge(_parse_numstat(diffed[1].stdout).by_file,
                             _parse_numstat(diffed[2].stdout).by_file)
       IN  /\ DOMAIN combined = paths
           /\ \A path \in paths :
                combined[path]
                  = << Reported(working, path, 1) + Reported(staged, path, 1),
                       Reported(working, path, 2) + Reported(staged, path, 2) >>
           /\ diffed[3].triple
                = << Cardinality(paths),
                     Total(working, 1) + Total(staged, 1),
                     Total(working, 2) + Total(staged, 2) >>

\* C28 witness: path f is in both reports and path g in one; the footprint
\* is 2 files for 3 lines, 5 added and 2 deleted.
C28_Witness ==
    /\ diffed # << >>
    /\ diffed[1] = Completed(0, << <<"2", "1", "f">>, <<"3", "0", "g">> >>)
    /\ diffed[2] = Completed(0, << <<"-", "1", "f">> >>)
    /\ diffed[3] = Footprint(2, 5, 2)

\* The sequence without its i-th element.
Remove(seq, i) ==
    [ k \in 1..(Len(seq) - 1) |-> IF k < i THEN seq[k] ELSE seq[k + 1] ]

\* C29: a stat line with the placeholder in its added or deleted field
\* counts 0 for that field and still counts its path as touched: against the
\* footprint of the same reports without the line, lines_added and
\* lines_deleted are larger by the line's numbers only, and files_touched is
\* larger by 1 exactly when no other line has the path.
C29_PlaceholderCountsAsTouched ==
    diffed # << >> /\ diffed[3].kind = "returned"
      /\ diffed[1].kind = "completed" /\ diffed[1].returncode = 0
      /\ diffed[2].kind = "completed" /\ diffed[2].returncode = 0
    => \A q \in {1, 2} : \A i \in DOMAIN diffed[q].stdout :
          LET parts == diffed[q].stdout[i]
              rest == Remove(diffed[q].stdout, i)
              without ==
                  IF q = 1
                  THEN collect_git_diff_metrics(Completed(0, rest), diffed[2])
                  ELSE collect_git_diff_metrics(diffed[1], Completed(0, rest))
              others == Paths(StatOf(rest))
                          \cup Paths(StatOf(diffed[3 - q].stdout))
          IN  Len(parts) >= 3 /\ (parts[1] = "-" \/ parts[2] = "-")
              => /\ without.kind = "returned"
                 /\ diffed[3].triple[1]
                      = without.triple[1]
                          + (IF parts[3] \in others THEN 0 ELSE 1)
                 /\ diffed[3].triple[2]
                      = without.triple[2]
                          + (IF parts[1] = "-" THEN 0 ELSE int(parts[1]))
                 /\ diffed[3].triple[3]
                      = without.triple[3]
                          + (IF parts[2] = "-" THEN 0 ELSE int(parts[2]))
                 /\ diffed[3].triple[1] >= 1

\* C29 witness: the only change is a binary file: one file touched, no
\* lines.
C29_Witness ==
    /\ diffed # << >>
    /\ diffed[1] = Completed(0, << <<"-", "-", "g">> >>)
    /\ diffed[2] = Completed(0, << >>)
    /\ diffed[3] = Footprint(1, 0, 0)

\* C31 as stated: a run whose command modifies no tracked file stores no
\* event, whatever the state of the repository when the command starts.
C31_UnmodifiedStoresNothing ==
    [][ InsertCommit => last_run[1] # last_run[2] ]_vars

\* C31, amended: a run whose command modifies no tracked file stores no
\* event when the repository has no uncommitted changes as the command
\* starts; the collector reports the outstanding changes of the repository,
\* not those the command made.
C31_UnmodifiedCleanStoresNothing ==
    [][ InsertCommit
        => \/ last_run[1] # last_run[2]
           \/ last_run[1] # CleanRepo ]_vars

\* C31 witness: a command that modified nothing in a clean repository has
\* run to its end; its event was skipped and the store is empty.
C31_Witness ==
    /\ last_run = << CleanRepo, CleanRepo >>
    /\ run_pc = "exited"
    /\ run_error = "none"
    /\ insert_ret = "none"
    /\ collected = << <<0, 0, 0>> >>
    /\ command_events = << >>

\* The committed rows of the event the present run generated an id for.
RunEvents ==
    SelectSeq(command_events, LAMBDA row : row.id = run_event_id)

\* What holds of every finished run: it stored at most one event; if
\* insert_command_event returned an id, the store has exactly one event of
\* that id, with the footprint the collector gave and the exit code and
\* timed_out of the execution, and one pending entry for it without
\* attempts; else it has no event of the run.
OneEventOfRun ==
    run_pc = "exited"
    => /\ Len(RunEvents) <= 1
       /\ insert_ret # "id" => Len(RunEvents) = 0
       /\ insert_ret = "id"
            => /\ Len(RunEvents) = 1
               /\ << RunEvents[1].files_touched_count, RunEvents[1].lines_added,
                     RunEvents[1].lines_deleted >> = collected[1]
               /\ RunEvents[1].exit_code = run_metrics[1].exit_code
               /\ RunEvents[1].exit_code = cmd_status[1]
               /\ IntToBool(RunEvents[1].timed_out) = run_metrics[1].timed_out
               /\ Cardinality(QueueRows(sync_queue, run_event_id)) = 1
               /\ \A j \in QueueRows(sync_queue, run_event_id) :
                    /\ sync_queue[j].status = "pending"
                    /\ sync_queue[j].attempts = 0

C33_UnsupportedFormatBeforeIO ==
    [][ \A pandas \in BOOLEAN :
          Export("xml", pandas)
          => /\ exported'[1].kind = "ValueError"
             /\ ~ exported'[1].read
             /\ out_files' = out_files
             /\ out_parent' = out_parent ]_vars

\* The i-th data row of an exported file as its (column, value) pairs, the
\* text of a csv field read back as the value it is the text of.
DataRow(file, i) ==
    IF file.format = "csv"
    THEN [ k \in DOMAIN file.rows[i] |->
             << file.header[k], file.rows[i][k].text >> ]
    ELSE file.rows[i]

\* The seven core fields of a listed event in the fixed order of the export.
CoreFields(record) ==
    [ k \in DOMAIN EXPORT_COLUMNS |->
        << EXPORT_COLUMNS[k],
           IF EXPORT_COLUMNS[k] = "timed_out"
           THEN (IF record.timed_out THEN 1 ELSE 0)
           ELSE record[EXPORT_COLUMNS[k]] >> ]

\* C34: an export of a store of N events to csv or to jsonl returns N and
\* writes N data rows; row i has exactly the seven core fields of the i-th
\* listed event in the fixed order (timed_out as 0 or 1, no prediction
\* field), with the same values in both formats, and no stored row changes.
C34_ExportCsvJsonlAgree ==
    /\ [][ \A fmt \in {"csv", "jsonl"}, pandas \in BOOLEAN :
             Export(fmt, pandas)
             => /\ UNCHANGED store_vars
                /\ exported'[1] = ExportReturned(fmt, Len(command_events))
                /\ out_parent'
                /\ LET file == out_files'[fmt][1] IN
                     /\ file.format = fmt
                     /\ Len(file.rows) = Len(command_events)
                     /\ \E listing \in list_command_events(command_events,
                                                           << >>) :
                          \A i \in DOMAIN listing :
                             DataRow(file, i) = CoreFields(listing[i]) ]_vars
    /\ [](\A listing \in list_command_events(command_events, << >>) :
            LET payload == [ i \in DOMAIN listing |->
                               _export_payload(listing[i]) ]
            IN  \A i \in DOMAIN listing :
                   /\ DataRow(CsvFile(payload), i)
                        = DataRow(JsonlFile(payload), i)
                   /\ DataRow(CsvFile(payload), i) = CoreFields(listing[i])
                   /\ DataRow(CsvFile(payload), i)[4][2] \in {0, 1})

\* C34 witness: a store of two events, one of them scored, was exported to
\* csv and to jsonl: both files have two data rows, the last call returned 2.
C34_Witness ==
    /\ Len(command_events) = 2
    /\ out_files["csv"] # << >>
    /\ out_files["jsonl"] # << >>
    /\ Len(out_files["csv"][1].rows) = 2
    /\ Len(out_files["jsonl"][1].rows) = 2
    /\ \A i \in 1..2 :
          DataRow(out_files["csv"][1], i) = DataRow(out_files["jsonl"][1], i)
    /\ exported = << ExportReturned("jsonl", 2) >>
    /\ command_events[1].predicted_productivity # Null
    /\ command_events[2].timed_out = 1
    /\ DataRow(out_files["csv"][1], 1) # DataRow(out_files["csv"][1], 2)

\* payload = json.dumps({"events": pending}): the records go out as fetched.
RequestBody(records) == [events |-> records]

\* The fields of an event of the wire format.
WIRE_FIELDS ==
    { "id", "agent_id", "executed_at", "command_hash", "duration_ms",
      "exit_code", "timed_out", "files_touched_count", "lines_added",
      "lines_deleted" }

\* C35: each event of the body of a sync request has exactly the ten fields
\* of the wire format: no prediction field and no attempts count is sent.
C35_WireFieldsOnly ==
    \A p \in Procs :
       sync_pc[p] \in {"request", "response"}
       => \A k \in DOMAIN RequestBody(pending[p]).events :
             DOMAIN RequestBody(pending[p]).events[k] = WIRE_FIELDS

\* The ids of the batch the pass fetched.
BatchIds == Range(EventIds(pending[1]))

\* The entries committed since the pass fetched its batch: with a batch size
\* that takes every pending event, those that are pending and not of the
\* batch.
InsertedSinceFetch ==
    { j \in DOMAIN sync_queue :
        /\ sync_queue[j].status = "pending"
        /\ sync_queue[j].event_id \notin BatchIds }

\* C36: a sync pass beside inserts touches only the entries of its batch.
\* An event committed after the pass fetched and before it marked is not
\* sent by the pass and keeps status pending and attempts 0 when the pass
\* has marked, synced or failed; the pass changes no other entry and no
\* event row, and no step of the pass or of a run removes or changes a
\* committed event or drops an entry.
C36_PassTouchesOnlyItsBatch ==
    /\ [](sync_pc[1] \in {"request", "response", "returned"}
          => \A j \in InsertedSinceFetch :
                /\ sync_queue[j].attempts = 0
                /\ sync_queue[j].last_attempt_at = Null
                /\ RemoteCount(sync_queue[j].event_id) = 0)
    /\ [][ Complete(1)
           => /\ command_events' = command_events
              /\ DOMAIN sync_queue' = DOMAIN sync_queue
              /\ \A j \in DOMAIN sync_queue :
                   sync_queue[j].event_id \notin BatchIds
                   => sync_queue'[j] = sync_queue[j] ]_vars
    /\ [][ /\ Len(command_events') >= Len(command_events)
           /\ Len(sync_queue') >= Len(sync_queue)
           /\ \A i \in DOMAIN command_events :
                command_events'[i] = command_events[i]
           /\ \A j \in DOMAIN sync_queue :
                sync_queue'[j].event_id = sync_queue[j].event_id
           /\ InsertCommit
                => /\ Len(command_events') = Len(command_events) + 1
                   /\ command_events'[Len(command_events')].id = run_event_id
                   /\ sync_queue'[Len(sync_queue')] = QueueRow(run_event_id)
         ]_vars

\* C36 witness: the pass fetched event 1 alone, event 2 was committed while
\* the pass was under way, and the pass has marked: event 1 is synced,
\* event 2 is pending with no attempt and is not at the remote.
C36_Witness ==
    /\ sync_pc[1] = "returned"
    /\ EventIds(pending[1]) = << 1 >>
    /\ Len(sync_queue) = 2
    /\ sync_queue[1].status = "synced"
    /\ sync_queue[2] = QueueRow(2)
    /\ RemoteCount(2) = 0
    /\ Len(command_events) = 2

\* C37: in every reachable state of the sync client composed with the
\* reference ingestor, every entry of the sync queue with status synced
\* refers to an event id the remote store holds.
C37_SyncedImpliesRemotelyHeld ==
    \A j \in DOMAIN sync_queue :
       sync_queue[j].status = "synced"
       => RemoteCount(sync_queue[j].event_id) >= 1

\* C37 witness: two passes went over the same event, one delivery failed
\* and the other was accepted; the entry is synced and the remote store
\* holds the event once.
C37_Witness ==
    /\ Len(sync_queue) >= 1
    /\ sync_queue[1].status = "synced"
    /\ sync_queue[1].attempts >= 1
    /\ RemoteCount(sync_queue[1].event_id) = 1

\* C38: once an entry of the sync queue has status synced, no step changes
\* its attempts counter or its last error, under any interleaving of two
\* sync passes.
C38_SyncedEntryFrozen ==
    [][ \A j \in DOMAIN sync_queue :
          sync_queue[j].status = "synced"
          => /\ sync_queue'[j].attempts = sync_queue[j].attempts
             /\ sync_queue'[j].last_error = sync_queue[j].last_error ]_vars

\* The metrics of a run that finished with the footprint the collector gave.
CollectedMetrics ==
    run_command(7, [kind |-> "exit", code |-> 0, elapsed |-> 5],
                diffed[3].triple)

\* The paths of the merged stat reports: those of both reports when both
\* queries succeeded, none when the collector gave up before merging.
MergedPaths ==
    IF \A k \in {1, 2} : diffed[k].kind = "completed" /\ diffed[k].returncode = 0
    THEN Paths(StatOf(diffed[1].stdout)) \cup Paths(StatOf(diffed[2].stdout))
    ELSE {}

====
